---- MODULE Spec2Model ----
(***************************************************************************)
(* Verification model of the topcvetok.by backend (Django / DRF).          *)
(*                                                                         *)
(* Money is DecimalField(decimal_places=2); the model counts in whole BYN, *)
(* which the additions, multiplications and comparisons of the code        *)
(* preserve.  An optional (nullable) value is <<>> for None/NULL and <<v>> *)
(* for the value v.  A database table is a function whose DOMAIN is the    *)
(* set of primary keys that have a row.                                    *)
(***************************************************************************)
EXTENDS Integers, Sequences, FiniteSets, TLC

VARIABLES
    \* ---- Order table and the clock (topcvetok/models.py, Order)
    orders,       \* Order rows: pk -> [personal_data_consent, consent_date, total_amount]
    now,          \* timezone.now()
    lastSave,     \* <<>> or <<call>>: the arguments of the latest Order.save()
    \* ---- POST orders (OrderViewSet.create) and the catalog it reads
    products,     \* Product rows: pk -> [price, promotional_price, is_available]
    orderItems,   \* OrderItem rows (a set of records)
    req,          \* <<>> or <<request body>> of the request being handled
    pc,           \* position of the handler
    order,        \* <<>> or <<[pk, row]>>: the handler's local `order` instance
    idx,          \* number of items of the request the loop has handled
    total_amount, \* the handler's local `total_amount`
    resp,         \* <<>> or <<response>>
    \* ---- Product.get_price_with_attributes applied to an input
    arg_product,              \* the Product row (self)
    arg_selected_attributes,  \* the sequence of Attribute rows passed in
    price_result,         \* <<>> or <<the value returned>>
    \* ---- POST calculate-delivery-price (CalculateDeliveryPriceView.post)
    in_delivery_method_id,   \* request.data 'delivery_method_id' ("" when absent)
    in_order_amount,         \* request.data 'order_amount'
    in_delivery_time,        \* <<>> when absent, or <<hour>> of the ISO datetime sent
    delivery_resp,        \* <<>> or <<response>>
    \* ---- POST login/ (Login.post) and the tables behind it
    accounts,     \* Account rows: login -> [password, is_active, is_staff, is_superuser]
    outstanding,  \* OutstandingToken rows written by RefreshToken.for_user
    login_req,    \* <<>> or <<request body>> of the latest login
    login_resp,   \* <<>> or <<response>> to it
    \* ---- AccountManager, POST logout/ and clear_expired_tokens
    account_call, \* <<>> or <<the latest call that wrote the Account table>>
    issued,       \* the refresh tokens signed so far (held by clients)
    blacklisted,  \* BlacklistedToken rows: the jti of the token each points to
    logout_req,   \* <<>> or <<request>> of the latest logout
    logout_resp,  \* <<>> or <<response>> to it
    clear_runs,   \* clear_expired_tokens runs: run -> [pc, now]
    \* ---- requests to the ModelViewSets (get_permissions) and the tables behind them
    content,      \* viewset -> (pk -> data): the rows of the viewset's model
    perm_req,     \* <<>> or <<request>>: viewset, action, pk, authenticated
    perm_resp,    \* <<>> or <<response>> to it
    \* ---- Review table and save_review_callback (topcvetok/tasks.py)
    reviews,      \* Review rows (a set of records with their pk)
    callbacks,    \* run -> the position and locals of its save_review_callback call
    \* ---- one run of download_company_review through YandexParser.parse
    page,         \* <<>> or <<what the browser will meet>>: outcome, elements
    sc_pc,        \* position of the run
    driver,       \* "none", "started" or "quit": the browser process of the run
    sc_idx,       \* number of elements the loop of get_reviews_incremental has taken
    processed_count, \* its local processed_count
    cb_log,       \* the callback invocations of the run: element index and result
    task_result,  \* <<>> or <<what download_company_review returned>>
    \* ---- GET products with ProductFilter parameters
    f_params,     \* <<>> or <<the query parameters>>
    f_result,     \* <<>> or <<[error, ids]>>: the filtered queryset or the exception
    \* ---- manage.py init_data and the tables it seeds
    seed_tables,  \* table name -> the set of rows (their natural keys)
    seed_clock,   \* datetime.now() of the process
    seed_runs,    \* number of runs of the command so far
    \* ---- Parser.__scroll_to_bottom and the review feed of the page
    cards,        \* number of review cards in the DOM
    last_count,   \* the loop's local last_count
    scroll_pc,    \* position of the loop
    \* ---- Category table, its API and the traversals of a category
    categories,   \* Category rows: id -> [name, slug, parent]
    cat_result,   \* <<>> or <<what the traversals of one category returned>>
    \* ---- ProductSerializer's cached primary category
    product_categories, \* product -> the sequence of its categories
    cache,        \* django cache: key -> <<>> or <<[value, expires]>>
    cache_clock,  \* time in seconds
    ser_resp,     \* <<>> or <<the latest serialization: product, fields, fresh values>>
    \* ---- ProductSerializer.get_variations
    var_catalog,  \* Product rows: id -> [name, has_variation_attr]
    ser_stack,    \* the products whose ProductSerializer is being evaluated, outermost first
    \* ---- load_csv_data of load_products_with_images
    csv_input,    \* <<>> or <<the rows of the CSV file>>
    csv_result    \* <<>> or <<the csv_data returned>>

orderVars  == <<orders, now, lastSave>>
createVars == <<products, orderItems, req, pc, order, idx, total_amount, resp>>
priceVars  == <<arg_product, arg_selected_attributes, price_result>>
deliveryVars == <<in_delivery_method_id, in_order_amount, in_delivery_time, delivery_resp>>
authVars == <<accounts, outstanding, login_req, login_resp,
              account_call, issued, blacklisted, logout_req, logout_resp, clear_runs>>
permVars == <<content, perm_req, perm_resp>>
reviewVars == <<reviews, callbacks>>
scrapeVars == <<page, sc_pc, driver, sc_idx, processed_count, cb_log, task_result>>
filterVars == <<f_params, f_result>>
seedVars == <<seed_tables, seed_clock, seed_runs>>
scrollVars == <<cards, last_count, scroll_pc>>
categoryVars == <<categories, cat_result>>
cacheVars == <<product_categories, cache, cache_clock, ser_resp>>
variationVars == <<var_catalog, ser_stack>>
csvVars == <<csv_input, csv_result>>
labVars == <<seedVars, scrollVars, categoryVars, cacheVars, variationVars, csvVars>>
sideVars == <<permVars, reviewVars, scrapeVars, filterVars, labVars>>
vars == <<orderVars, createVars, priceVars, deliveryVars, authVars, sideVars>>

\* The variables outside the Order tables and order creation.
outsideOrders == <<priceVars, deliveryVars, authVars, sideVars>>

None == <<>>
Some(v) == <<v>>
IsNone(x) == x = <<>>
The(x) == x[1]

\* No price computation and no delivery request under way.
PriceIdle ==
    /\ arg_product = None
    /\ arg_selected_attributes = <<>>
    /\ price_result = None

DeliveryIdle ==
    /\ in_delivery_method_id = ""
    /\ in_order_amount = 0
    /\ in_delivery_time = None
    /\ delivery_resp = None

\* No account, no token and no login.
AuthIdle ==
    /\ accounts = <<>>
    /\ outstanding = {}
    /\ login_req = None
    /\ login_resp = None
    /\ account_call = None
    /\ issued = {}
    /\ blacklisted = {}
    /\ logout_req = None
    /\ logout_resp = None
    /\ clear_runs = <<>>

\* No viewset request, no review, no scrape and no filtered listing.
PermIdle ==
    /\ content = <<>>
    /\ perm_req = None
    /\ perm_resp = None

ReviewIdle ==
    /\ reviews = {}
    /\ callbacks = <<>>

ScrapeIdle ==
    /\ page = None
    /\ sc_pc = "idle"
    /\ driver = "none"
    /\ sc_idx = 0
    /\ processed_count = 0
    /\ cb_log = <<>>
    /\ task_result = None

FilterIdle ==
    /\ f_params = None
    /\ f_result = None

SeedIdle ==
    /\ seed_tables = <<>>
    /\ seed_clock = 0
    /\ seed_runs = 0

ScrollIdle ==
    /\ cards = 0
    /\ last_count = 0
    /\ scroll_pc = "idle"

CategoryIdle ==
    /\ categories = <<>>
    /\ cat_result = None

CacheIdle ==
    /\ product_categories = <<>>
    /\ cache = <<>>
    /\ cache_clock = 0
    /\ ser_resp = None

VariationIdle ==
    /\ var_catalog = <<>>
    /\ ser_stack = <<>>

CsvIdle ==
    /\ csv_input = None
    /\ csv_result = None

LabIdle == SeedIdle /\ ScrollIdle /\ CategoryIdle /\ CacheIdle /\ VariationIdle /\ CsvIdle

SideIdle == PermIdle /\ ReviewIdle /\ ScrapeIdle /\ FilterIdle /\ LabIdle

OutsideOrdersIdle == PriceIdle /\ DeliveryIdle /\ AuthIdle /\ SideIdle

\* ---- bounds
MaxTime == 3

OrderIds == {"o1", "o2"}
Times == 1..MaxTime
OptTimes == {None} \cup {Some(t) : t \in Times}

(***************************************************************************)
(* Order.save()                                                            *)
(***************************************************************************)

\* An Order instance as far as save() reads and writes it.
OrderRow(consent, date, total) ==
    [personal_data_consent |-> consent, consent_date |-> date, total_amount |-> total]

\* Order.objects.get(pk=self.pk): <<row>>, or <<>> for Order.DoesNotExist.
Order_objects_get(pk) == IF pk \in DOMAIN orders THEN Some(orders[pk]) ELSE None

\* Order.save() without the protection of a consent already given.
Order_save_NoRatchet(old, self, t) ==
    IF self.personal_data_consent /\ IsNone(self.consent_date)
    THEN [self EXCEPT !.consent_date = Some(t)]
    ELSE self

\* Order.save() that does not stamp the consent date.
Order_save_NoStamp(old, self, t) ==
    IF ~IsNone(old) /\ The(old).personal_data_consent /\ ~self.personal_data_consent
    THEN [self EXCEPT !.personal_data_consent = TRUE,
                      !.consent_date = The(old).consent_date]
    ELSE self

\* The row Order.save() hands to super().save(): `self` is the instance with
\* the fields the caller assigned, `old` the result of Order.objects.get, `t`
\* the value of timezone.now().  self.pk is never empty (default=generate_uuid),
\* so the lookup of the old row always runs.
Order_save(old, self, t) ==
    LET dated == IF self.personal_data_consent /\ IsNone(self.consent_date)
                 THEN [self EXCEPT !.consent_date = Some(t)]
                 ELSE self
    IN  IF ~IsNone(old) /\ The(old).personal_data_consent /\ ~dated.personal_data_consent
        THEN [dated EXCEPT !.personal_data_consent = TRUE,
                           !.consent_date = The(old).consent_date]
        ELSE dated

\* Order.has_valid_consent
has_valid_consent(o) == o.personal_data_consent /\ ~IsNone(o.consent_date)

\* A caller assigns personal_data_consent and consent_date to an instance with
\* primary key pk (a new one, or one loaded from the table) and saves it.
OrderSave(pk, consent, date) ==
    LET old  == Order_objects_get(pk)
        self == OrderRow(consent, date, IF IsNone(old) THEN 0 ELSE The(old).total_amount)
    IN  /\ orders' = (pk :> Order_save(old, self, now)) @@ orders
        /\ lastSave' = Some([pk |-> pk, old |-> old, self |-> self])
        /\ UNCHANGED <<now, createVars>>
        /\ UNCHANGED outsideOrders

\* Time passes between requests.
Tick ==
    /\ now < MaxTime
    /\ now' = now + 1
    /\ UNCHANGED <<orders, lastSave, createVars>>
    /\ UNCHANGED outsideOrders

CreateIdle ==
    /\ products = <<>>
    /\ orderItems = {}
    /\ req = None
    /\ pc = "idle"
    /\ order = None
    /\ idx = 0
    /\ total_amount = 0
    /\ resp = None

Init ==
    /\ orders = <<>>
    /\ now = 1
    /\ lastSave = None
    /\ CreateIdle
    /\ OutsideOrdersIdle

Next ==
    \/ \E pk \in OrderIds, consent \in BOOLEAN, date \in OptTimes :
          OrderSave(pk, consent, date)
    \/ Tick

Spec == Init /\ [][Next]_vars

(***************************************************************************)
(* Claims about Order.save()                                               *)
(***************************************************************************)

\* The latest save was an attempt to revoke a consent that was stored.
RevocationAttempted ==
    /\ ~IsNone(lastSave)
    /\ ~IsNone(The(lastSave).old)
    /\ The(The(lastSave).old).personal_data_consent
    /\ ~The(lastSave).self.personal_data_consent

\* C1: consent ratchet: once an Order row has been stored with
\* personal_data_consent = true, every later step (every later save, whatever
\* the caller assigned) leaves the row stored with personal_data_consent = true.
C1_ConsentRatchet ==
    [][\A pk \in DOMAIN orders :
          orders[pk].personal_data_consent
              => (pk \in DOMAIN orders' /\ orders'[pk].personal_data_consent)]_vars

\* Witness of C1: a revocation was attempted on a consenting order, and the
\* stored row still carries the consent.
C1_Witness ==
    /\ RevocationAttempted
    /\ orders[The(lastSave).pk].personal_data_consent

\* C2: consent_date is immutable once set: once an Order row has been stored
\* with a non-null consent_date, no later save changes the stored consent_date.
C2_ConsentDateImmutable ==
    [][\A pk \in DOMAIN orders :
          ~IsNone(orders[pk].consent_date)
              => (pk \in DOMAIN orders' /\ orders'[pk].consent_date = orders[pk].consent_date)]_vars

\* C3: every stored Order with personal_data_consent = true has a non-null
\* consent_date, i.e. has_valid_consent is true exactly when
\* personal_data_consent is true.
C3_ConsentHasDate ==
    \A pk \in DOMAIN orders :
        /\ orders[pk].personal_data_consent => ~IsNone(orders[pk].consent_date)
        /\ has_valid_consent(orders[pk]) = orders[pk].personal_data_consent

\* Witness of C3: the caller saved a consenting instance with no consent_date,
\* and the stored row has a valid consent.
C3_Witness ==
    /\ ~IsNone(lastSave)
    /\ The(lastSave).self.personal_data_consent
    /\ IsNone(The(lastSave).self.consent_date)
    /\ has_valid_consent(orders[The(lastSave).pk])

(***************************************************************************)
(* The catalog and reference tables read by order creation                 *)
(***************************************************************************)

\* ---- bounds
MaxItems == 2
MaxQuantity == 2

Range(f) == {f[i] : i \in DOMAIN f}

\* Product rows at the start: one without and one with a promotional price.
ProductRows ==
    ("p1" :> [price |-> 45, promotional_price |-> None, is_available |-> TRUE]) @@
    ("p2" :> [price |-> 45, promotional_price |-> Some(40), is_available |-> TRUE])

\* Attribute rows: two active ones and an inactive one.
Attribute ==
    ("a1" :> [price_modifier |-> 5, is_active |-> TRUE]) @@
    ("a2" :> [price_modifier |-> -2, is_active |-> TRUE]) @@
    ("a3" :> [price_modifier |-> 3, is_active |-> FALSE])

\* DeliveryMethod, PaymentMethod and Service rows as far as validation reads
\* them; the ids "dm0", "pm0" and "s0" have no row.
DeliveryMethodActive == ("dm1" :> TRUE) @@ ("dm2" :> FALSE)
PaymentMethodActive == ("pm1" :> TRUE) @@ ("pm2" :> FALSE)
ServiceAvailable == ("s1" :> TRUE) @@ ("s2" :> FALSE)

\* ---- request bodies
AttributeIdLists == {<<>>, <<"a1", "a2">>, <<"a1", "a3">>}
ItemData == [product_id : DOMAIN ProductRows, quantity : 1..MaxQuantity,
             attribute_ids : AttributeIdLists]
ItemLists == UNION {[1..n -> ItemData] : n \in 0..MaxItems}
Requests == [personal_data_consent : BOOLEAN,
             delivery_method : {"dm1", "dm2", "dm0"},
             payment_method : {"pm1", "pm2", "pm0"},
             service : {"", "s1", "s2", "s0"},
             items : ItemLists]

(***************************************************************************)
(* Product.get_price_with_attributes                                       *)
(***************************************************************************)

\* The loop `for attribute in selected_attributes: total_modifier += ...`.
RECURSIVE total_modifier_loop(_, _)
total_modifier_loop(selected_attributes, total_modifier) ==
    IF selected_attributes = <<>>
    THEN total_modifier
    ELSE total_modifier_loop(Tail(selected_attributes),
                             total_modifier + Head(selected_attributes).price_modifier)

\* get_price_with_attributes that starts from the base price whenever the
\* promotional price is falsy (None or 0).
get_price_with_attributes_Truthy(self, selected_attributes) ==
    LET base_price == IF ~IsNone(self.promotional_price) /\ The(self.promotional_price) # 0
                      THEN The(self.promotional_price)
                      ELSE self.price
    IN  base_price + total_modifier_loop(selected_attributes, 0)

\* self is a Product row, selected_attributes a sequence of Attribute rows.
get_price_with_attributes(self, selected_attributes) ==
    LET base_price == IF ~IsNone(self.promotional_price)
                      THEN The(self.promotional_price)
                      ELSE self.price
    IN  base_price + total_modifier_loop(selected_attributes, 0)

(***************************************************************************)
(* OrderItemCreateSerializer / OrderCreateSerializer                       *)
(***************************************************************************)

\* Each validate_<field> is TRUE when the field passes and FALSE when it
\* raises serializers.ValidationError.
validate_product_id(value) ==
    value \in DOMAIN products /\ products[value].is_available

validate_attribute_ids(value) ==
    IF value # <<>>
    THEN LET existing_attrs == {a \in DOMAIN Attribute :
                                   a \in Range(value) /\ Attribute[a].is_active}
         IN  Cardinality(existing_attrs) = Len(value)
    ELSE TRUE

\* quantity = IntegerField(min_value=1)
validate_quantity(value) == value >= 1

validate_item(item) ==
    /\ validate_product_id(item.product_id)
    /\ validate_quantity(item.quantity)
    /\ validate_attribute_ids(item.attribute_ids)

\* validate_personal_data_consent that accepts a refused consent.
validate_personal_data_consent_Any(value) == TRUE

validate_personal_data_consent(value) == value

validate_items(value) == value # <<>>

validate_delivery_method(value) ==
    value \in DOMAIN DeliveryMethodActive /\ DeliveryMethodActive[value]

validate_payment_method(value) ==
    value \in DOMAIN PaymentMethodActive /\ PaymentMethodActive[value]

validate_service(value) ==
    IF value # ""
    THEN value \in DOMAIN ServiceAvailable /\ ServiceAvailable[value]
    ELSE TRUE

\* serializer.errors: the fields of the error map.  The items field fails when
\* a child fails, or, with every child valid, when validate_items fails.
serializer_errors(data) ==
    {f \in {"personal_data_consent"} : ~validate_personal_data_consent(data.personal_data_consent)}
    \cup {f \in {"delivery_method"} : ~validate_delivery_method(data.delivery_method)}
    \cup {f \in {"payment_method"} : ~validate_payment_method(data.payment_method)}
    \cup {f \in {"service"} : ~validate_service(data.service)}
    \cup {f \in {"items"} :
            \/ \E i \in DOMAIN data.items : ~validate_item(data.items[i])
            \/ ~validate_items(data.items)}

is_valid(data) == serializer_errors(data) = {}

(***************************************************************************)
(* OrderViewSet.create (POST orders), one step per database access         *)
(***************************************************************************)

\* The rows of a queryset, in the order the database returns them.
RECURSIVE RowsOf(_, _)
RowsOf(table, pks) ==
    IF pks = {}
    THEN <<>>
    ELSE LET pk == CHOOSE x \in pks : TRUE
         IN  <<table[pk]>> \o RowsOf(table, pks \ {pk})

\* Attribute.objects.filter(id__in=attribute_ids): the ids of the rows found.
Attribute_filter(attribute_ids) == {a \in DOMAIN Attribute : a \in Range(attribute_ids)}

\* The price the loop of create gives an item: the product's price, and with
\* a non-empty attribute_ids the product's price with attributes.
item_price(product, item_data) ==
    IF item_data.attribute_ids # <<>>
    THEN get_price_with_attributes(product,
             RowsOf(Attribute, Attribute_filter(item_data.attribute_ids)))
    ELSE product.price

\* OrderSerializer(order).data as far as the claims read it.
OrderData(instance) ==
    [id |-> instance.pk,
     total_amount |-> instance.row.total_amount,
     personal_data_consent |-> instance.row.personal_data_consent,
     items |-> {it \in orderItems : it.order = instance.pk}]

\* serializer.is_valid() on the request body: 400 with serializer.errors, or on
\* with serializer.validated_data (req), which the rest of the handler reads.
CreateIsValid(data) ==
    /\ pc = "idle"
    /\ IF is_valid(data)
       THEN /\ pc' = "create_order"
            /\ req' = Some(data)
            /\ resp' = None
       ELSE /\ pc' = "done"
            /\ req' = None
            /\ resp' = Some([status |-> 400, errors |-> serializer_errors(data)])
    /\ UNCHANGED <<orderVars, products, orderItems, order, idx, total_amount>>
    /\ UNCHANGED outsideOrders

\* POST orders with any request body.
CreateRequest == pc = "idle" /\ \E data \in Requests : CreateIsValid(data)

\* order = models.Order.objects.create(...): a new primary key and save().
CreateOrder ==
    /\ pc = "create_order"
    /\ LET pk   == CHOOSE o \in OrderIds : o \notin DOMAIN orders
           self == OrderRow(The(req).personal_data_consent, None, 0)
           row  == Order_save(None, self, now)
       IN  /\ orders' = (pk :> row) @@ orders
           /\ lastSave' = Some([pk |-> pk, old |-> None, self |-> self])
           /\ order' = Some([pk |-> pk, row |-> row])
    /\ total_amount' = 0
    /\ idx' = 0
    /\ pc' = "items"
    /\ UNCHANGED <<now, products, orderItems, req, resp>>
    /\ UNCHANGED outsideOrders

\* One iteration of `for item_data in order_data['items']`.  Product.objects.get
\* raises Product.DoesNotExist when the row is gone: the request ends with 500,
\* and nothing undoes the rows written so far (no transaction is open).
CreateItem ==
    /\ pc = "items"
    /\ idx < Len(The(req).items)
    /\ LET item_data == The(req).items[idx + 1]
       IN  IF item_data.product_id \notin DOMAIN products
           THEN /\ pc' = "done"
                /\ resp' = Some([status |-> 500, errors |-> {}])
                /\ UNCHANGED <<orderItems, idx, total_amount>>
           ELSE LET product == products[item_data.product_id]
                    price   == item_price(product, item_data)
                IN  /\ orderItems' = orderItems \cup
                           {[id |-> idx + 1,
                             order |-> The(order).pk,
                             product |-> item_data.product_id,
                             quantity |-> item_data.quantity,
                             price |-> price,
                             attributes |-> Attribute_filter(item_data.attribute_ids)]}
                    /\ total_amount' = total_amount + price * item_data.quantity
                    /\ idx' = idx + 1
                    /\ UNCHANGED <<pc, resp>>
    /\ UNCHANGED <<orderVars, products, req, order>>
    /\ UNCHANGED outsideOrders

\* order.total_amount = total_amount; order.save(); Response(..., 201).
CreateFinish ==
    /\ pc = "items"
    /\ idx = Len(The(req).items)
    /\ LET pk   == The(order).pk
           old  == Order_objects_get(pk)
           self == [The(order).row EXCEPT !.total_amount = total_amount]
           row  == Order_save(old, self, now)
       IN  /\ orders' = (pk :> row) @@ orders
           /\ lastSave' = Some([pk |-> pk, old |-> old, self |-> self])
           /\ order' = Some([pk |-> pk, row |-> row])
           /\ resp' = Some([status |-> 201, errors |-> {},
                            data |-> OrderData([pk |-> pk, row |-> row])])
    /\ pc' = "done"
    /\ UNCHANGED <<now, products, orderItems, req, idx, total_amount>>
    /\ UNCHANGED outsideOrders

\* An administrator deletes a product; OrderItem.product is on_delete=CASCADE.
ProductDelete(p) ==
    /\ p \in DOMAIN products
    /\ products' = [q \in DOMAIN products \ {p} |-> products[q]]
    /\ orderItems' = {it \in orderItems : it.product # p}
    /\ UNCHANGED <<orderVars, req, pc, order, idx, total_amount, resp>>
    /\ UNCHANGED outsideOrders

\* An administrator switches a product's is_available.
ProductSetAvailable(p, b) ==
    /\ p \in DOMAIN products
    /\ products[p].is_available # b
    /\ products' = [products EXCEPT ![p].is_available = b]
    /\ UNCHANGED <<orderVars, orderItems, req, pc, order, idx, total_amount, resp>>
    /\ UNCHANGED outsideOrders

InitCreate ==
    /\ orders = <<>>
    /\ now = 1
    /\ lastSave = None
    /\ products = ProductRows
    /\ orderItems = {}
    /\ req = None
    /\ pc = "idle"
    /\ order = None
    /\ idx = 0
    /\ total_amount = 0
    /\ resp = None
    /\ OutsideOrdersIdle

NextCreate ==
    \/ CreateRequest
    \/ CreateOrder
    \/ CreateItem
    \/ CreateFinish
    \/ \E p \in DOMAIN ProductRows : ProductDelete(p)
    \/ \E p \in DOMAIN ProductRows, b \in BOOLEAN : ProductSetAvailable(p, b)

SpecCreate == InitCreate /\ [][NextCreate]_vars

(***************************************************************************)
(* Claims about order creation                                             *)
(***************************************************************************)

RECURSIVE SumOver(_, _)
\* The sum of f[i] over the indices i in S.
SumOver(f, S) ==
    IF S = {}
    THEN 0
    ELSE LET i == CHOOSE x \in S : TRUE
         IN  f[i] + SumOver(f, S \ {i})

RECURSIVE ItemsAmount(_)
\* The sum of price x quantity over a set of OrderItem rows.
ItemsAmount(items) ==
    IF items = {}
    THEN 0
    ELSE LET it == CHOOSE x \in items : TRUE
         IN  it.price * it.quantity + ItemsAmount(items \ {it})

\* What C4 calls a request that must be refused, read against the tables as
\* they are when the request is validated.
C4_MustRefuse(data) ==
    \/ ~data.personal_data_consent
    \/ Len(data.items) = 0
    \/ ~(data.delivery_method \in DOMAIN DeliveryMethodActive
         /\ DeliveryMethodActive[data.delivery_method])
    \/ ~(data.payment_method \in DOMAIN PaymentMethodActive
         /\ PaymentMethodActive[data.payment_method])
    \/ (data.service # "" /\ ~(data.service \in DOMAIN ServiceAvailable
                               /\ ServiceAvailable[data.service]))
    \/ \E i \in DOMAIN data.items :
          \/ ~(data.items[i].product_id \in DOMAIN products
               /\ products[data.items[i].product_id].is_available)
          \/ \E j \in DOMAIN data.items[i].attribute_ids :
                ~(data.items[i].attribute_ids[j] \in DOMAIN Attribute
                  /\ Attribute[data.items[i].attribute_ids[j]].is_active)

Answered400 == ~IsNone(resp) /\ The(resp).status = 400

\* C4: a request with personal_data_consent = false, an empty item list, or a
\* delivery-method / payment-method / service / product / attribute id that
\* references no existing active (available) row is answered 400 with a
\* non-empty field error map and writes no Order and no OrderItem row (the
\* handler either answers 400 or goes on, so: whenever it goes on, the request
\* is none of these); and no Order in the table has personal_data_consent = false.
C4_InvalidRequestRefused ==
    [][/\ (pc = "idle" /\ pc' # "idle")
            => \/ /\ Answered400'
                  /\ The(resp').errors # {}
                  /\ orders' = orders
                  /\ orderItems' = orderItems
               \/ /\ IsNone(resp')
                  /\ ~IsNone(req')
                  /\ ~C4_MustRefuse(The(req'))
       /\ Answered400 => (orders' = orders /\ orderItems' \subseteq orderItems)
       /\ \A pk \in DOMAIN orders' : orders'[pk].personal_data_consent]_vars

\* Witness of C4: a request was answered 400 for its refused consent, and
\* another field, and no row was written.
C4_Witness ==
    /\ Answered400
    /\ {"personal_data_consent", "items"} \subseteq The(resp).errors
    /\ orders = <<>>
    /\ orderItems = {}

\* C5: order creation is atomic: every Order row a reader can see has all the
\* submitted items and a total_amount equal to the sum of price x quantity
\* over its OrderItems, and after a creation that failed part-way no Order row
\* remains.
C5_CreationAtomic ==
    /\ \A pk \in DOMAIN orders :
          LET items == {it \in orderItems : it.order = pk}
          IN  /\ ~IsNone(req) => Cardinality(items) = Len(The(req).items)
              /\ orders[pk].total_amount = ItemsAmount(items)
    /\ (~IsNone(resp) /\ The(resp).status = 500) => orders = <<>>

\* The price C6 gives a submitted item: (promotional_price if set, else price)
\* plus the sum of the price_modifier of the submitted attribute_ids.  Prices
\* of products never change in the model, so the rows at the start serve.
C6_ItemPrice(item_data) ==
    LET product == ProductRows[item_data.product_id]
        base    == IF IsNone(product.promotional_price)
                   THEN product.price
                   ELSE The(product.promotional_price)
        mods    == [j \in DOMAIN item_data.attribute_ids |->
                       Attribute[item_data.attribute_ids[j]].price_modifier]
    IN  base + SumOver(mods, DOMAIN mods)

\* C6: every OrderItem written by order creation carries the price-with-
\* attributes of its product for the submitted selection, also without
\* attribute_ids, and the created Order's total_amount is the sum of these
\* prices times the quantities.
C6_SnapshotPrice ==
    /\ ~IsNone(req) =>
          \A it \in orderItems : it.price = C6_ItemPrice(The(req).items[it.id])
    /\ (~IsNone(resp) /\ The(resp).status = 201) =>
          LET amounts == [i \in DOMAIN The(req).items |->
                             C6_ItemPrice(The(req).items[i]) * The(req).items[i].quantity]
          IN  The(resp).data.total_amount = SumOver(amounts, DOMAIN amounts)

(***************************************************************************)
(* Product.get_price_with_attributes on products and selections of any     *)
(* price                                                                   *)
(***************************************************************************)

\* ---- bounds
MaxSelected == 2

PriceProducts ==
    [price : {0, 45}, promotional_price : {None, Some(0), Some(40)}, is_available : {TRUE}]
PriceAttributes == [price_modifier : {5, -2, -50}, is_active : {TRUE}]
Selections == UNION {[1..n -> PriceAttributes] : n \in 0..MaxSelected}

\* product.get_price_with_attributes(selected_attributes)
PriceCall ==
    /\ IsNone(price_result)
    /\ price_result' = Some(get_price_with_attributes(The(arg_product), arg_selected_attributes))
    /\ UNCHANGED <<arg_product, arg_selected_attributes>>
    /\ UNCHANGED <<orderVars, createVars, deliveryVars, authVars, sideVars>>

InitPrice ==
    /\ arg_product \in {Some(p) : p \in PriceProducts}
    /\ arg_selected_attributes \in Selections
    /\ price_result = None
    /\ orders = <<>>
    /\ now = 1
    /\ lastSave = None
    /\ CreateIdle
    /\ DeliveryIdle
    /\ AuthIdle
    /\ SideIdle

NextPrice == PriceCall

SpecPrice == InitPrice /\ [][NextPrice]_vars

\* The selection of the spec's example: modifiers +5.00 and -2.00.
C7_Example == <<[price_modifier |-> 5, is_active |-> TRUE],
                [price_modifier |-> -2, is_active |-> TRUE]>>

\* C7: get_price_with_attributes returns (promotional_price if it is set, else
\* price) plus the sum of price_modifier over the selection, unclamped: 45 with
\* +5 and -2 gives 48, and 43 with promotional_price 40.
C7_PriceWithAttributes ==
    ~IsNone(price_result) =>
        LET self == The(arg_product)
            base == IF IsNone(self.promotional_price)
                    THEN self.price
                    ELSE The(self.promotional_price)
            mods == [i \in DOMAIN arg_selected_attributes |->
                        arg_selected_attributes[i].price_modifier]
        IN  /\ The(price_result) = base + SumOver(mods, DOMAIN mods)
            /\ (self.price = 45 /\ arg_selected_attributes = C7_Example
                    /\ IsNone(self.promotional_price)) => The(price_result) = 48
            /\ (self.price = 45 /\ arg_selected_attributes = C7_Example
                    /\ self.promotional_price = Some(40)) => The(price_result) = 43

\* Witness of C7: a promotional price with discounts larger than it gives a
\* negative price.
C7_Witness ==
    /\ ~IsNone(price_result)
    /\ ~IsNone(The(arg_product).promotional_price)
    /\ arg_selected_attributes # <<>>
    /\ The(price_result) < 0

(***************************************************************************)
(* DeliveryMethod.calculate_delivery_price and POST calculate-delivery-    *)
(* price                                                                   *)
(***************************************************************************)

\* A DeliveryMethod row; times of day are their hour.
DeliveryMethodRow(type, free_min, start, end, low, early, late, late_min, active) ==
    [delivery_type |-> type,
     base_price |-> 0,
     free_delivery_min_amount |-> free_min,
     working_hours_start |-> start,
     working_hours_end |-> end,
     low_amount_delivery_price |-> low,
     low_amount_early_price |-> early,
     low_amount_late_price |-> late,
     late_delivery_min_amount |-> late_min,
     is_active |-> active]

\* The rows init_data seeds (Minsk, Belarus, pickup with the field defaults),
\* and rows an administrator may add: different early and late prices, no
\* free-delivery threshold, and an inactive method.
DeliveryMethodRows ==
    ("minsk"    :> DeliveryMethodRow("minsk", Some(250), 8, 22, 12, 24, 24, Some(170), TRUE)) @@
    ("belarus"  :> DeliveryMethodRow("belarus", Some(500), 8, 18, 25, 35, 35, Some(300), TRUE)) @@
    ("pickup"   :> DeliveryMethodRow("pickup", None, 8, 22, 12, 24, 24, None, TRUE)) @@
    ("suburb"   :> DeliveryMethodRow("minsk", Some(100), 9, 20, 10, 15, 30, None, TRUE)) @@
    ("nofree"   :> DeliveryMethodRow("belarus", None, 8, 22, 12, 24, 24, None, TRUE)) @@
    ("inactive" :> DeliveryMethodRow("minsk", Some(250), 8, 22, 12, 24, 24, Some(170), FALSE))

Hours == 0..23
DeliveryTimes == {None} \cup {Some(h) : h \in Hours}
OrderAmounts == {0, 99, 100, 170, 249, 250, 300, 500}
DeliveryMethodIds == DOMAIN DeliveryMethodRows \cup {"", "unknown"}

\* What a call gives: the value returned, or the exception raised.
Returns(v) == [raised |-> "", value |-> v]
Raises(e) == [raised |-> e, value |-> 0]

\* self.free_delivery_min_amount or 0
free_delivery_min_amount_or_0(self) ==
    IF IsNone(self.free_delivery_min_amount) THEN 0 ELSE The(self.free_delivery_min_amount)

\* calculate_delivery_price with `>` for the late bucket.
calculate_delivery_price_LateAfter(self, order_amount, delivery_time) ==
    IF self.delivery_type = "pickup"
    THEN Returns(0)
    ELSE IF ~IsNone(delivery_time) /\ The(delivery_time) < self.working_hours_start
    THEN IF order_amount >= free_delivery_min_amount_or_0(self)
         THEN Raises("AttributeError")
         ELSE Returns(self.low_amount_early_price)
    ELSE IF ~IsNone(delivery_time) /\ The(delivery_time) > self.working_hours_end
    THEN IF order_amount >= free_delivery_min_amount_or_0(self)
         THEN Raises("AttributeError")
         ELSE Returns(self.low_amount_late_price)
    ELSE IF order_amount >= free_delivery_min_amount_or_0(self)
         THEN Returns(0)
         ELSE Returns(self.low_amount_delivery_price)

\* DeliveryMethod.calculate_delivery_price(order_amount, delivery_time).
\* early_delivery_price and late_delivery_price are no fields of the model:
\* reading them raises AttributeError.
calculate_delivery_price(self, order_amount, delivery_time) ==
    IF self.delivery_type = "pickup"
    THEN Returns(0)
    ELSE IF ~IsNone(delivery_time)
    THEN LET delivery_hour == The(delivery_time)
         IN  IF delivery_hour < self.working_hours_start
             THEN IF order_amount >= free_delivery_min_amount_or_0(self)
                  THEN Raises("AttributeError")
                  ELSE Returns(self.low_amount_early_price)
             ELSE IF delivery_hour >= self.working_hours_end
             THEN IF order_amount >= free_delivery_min_amount_or_0(self)
                  THEN Raises("AttributeError")
                  ELSE IF ~IsNone(self.late_delivery_min_amount)
                          /\ The(self.late_delivery_min_amount) # 0
                          /\ order_amount >= The(self.late_delivery_min_amount)
                       THEN Returns(self.low_amount_late_price)
                       ELSE Returns(self.low_amount_late_price)
             ELSE IF order_amount >= free_delivery_min_amount_or_0(self)
                  THEN Returns(0)
                  ELSE Returns(self.low_amount_delivery_price)
    ELSE IF order_amount >= free_delivery_min_amount_or_0(self)
         THEN Returns(0)
         ELSE Returns(self.low_amount_delivery_price)

\* CalculateDeliveryPriceView.post: 400 without an id, 404 without an active
\* row, 500 when the computation raises, else 200 with the price.
CalculateDeliveryPricePost(delivery_method_id, order_amount, delivery_time) ==
    IF delivery_method_id = ""
    THEN [status |-> 400, delivery_price |-> None]
    ELSE IF ~(delivery_method_id \in DOMAIN DeliveryMethodRows
              /\ DeliveryMethodRows[delivery_method_id].is_active)
    THEN [status |-> 404, delivery_price |-> None]
    ELSE LET delivery_method == DeliveryMethodRows[delivery_method_id]
             delivery_price  == calculate_delivery_price(delivery_method, order_amount,
                                                         delivery_time)
         IN  IF delivery_price.raised # ""
             THEN [status |-> 500, delivery_price |-> None]
             ELSE [status |-> 200, delivery_price |-> Some(delivery_price.value)]

\* The view answers the request.
DeliveryPost ==
    /\ IsNone(delivery_resp)
    /\ delivery_resp' = Some(CalculateDeliveryPricePost(in_delivery_method_id,
                                                        in_order_amount, in_delivery_time))
    /\ UNCHANGED <<in_delivery_method_id, in_order_amount, in_delivery_time>>
    /\ UNCHANGED <<orderVars, createVars, priceVars, authVars, sideVars>>

InitDelivery ==
    /\ in_delivery_method_id \in DeliveryMethodIds
    /\ in_order_amount \in OrderAmounts
    /\ in_delivery_time \in DeliveryTimes
    /\ delivery_resp = None
    /\ orders = <<>>
    /\ now = 1
    /\ lastSave = None
    /\ CreateIdle
    /\ PriceIdle
    /\ AuthIdle
    /\ SideIdle

NextDelivery == DeliveryPost

SpecDelivery == InitDelivery /\ [][NextDelivery]_vars

\* The request named an active delivery method and has been answered.
AnsweredActiveMethod ==
    /\ ~IsNone(delivery_resp)
    /\ in_delivery_method_id \in DOMAIN DeliveryMethodRows
    /\ DeliveryMethodRows[in_delivery_method_id].is_active

Priced(v) == [status |-> 200, delivery_price |-> Some(v)]

\* C8: for a non-pickup method with a free-delivery threshold: in working hours
\* [working_hours_start.hour, working_hours_end.hour), or with no delivery
\* time, the price is 0 from the threshold on and low_amount_delivery_price
\* below it; below the threshold it is low_amount_late_price at or after
\* working_hours_end.hour and low_amount_early_price before
\* working_hours_start.hour (Minsk: 300 at 14 -> 0, 100 at 14 -> 12, 100 at 23 -> 24).
C8_DeliveryPriceRule ==
    AnsweredActiveMethod =>
        LET m == DeliveryMethodRows[in_delivery_method_id]
            a == in_order_amount
            t == in_delivery_time
            r == The(delivery_resp)
            inHours == \/ IsNone(t)
                       \/ (m.working_hours_start <= The(t) /\ The(t) < m.working_hours_end)
        IN  /\ (m.delivery_type # "pickup" /\ ~IsNone(m.free_delivery_min_amount)) =>
                 LET threshold == The(m.free_delivery_min_amount)
                 IN  /\ (inHours /\ a >= threshold) => r = Priced(0)
                     /\ (inHours /\ a < threshold) => r = Priced(m.low_amount_delivery_price)
                     /\ (~IsNone(t) /\ The(t) >= m.working_hours_end /\ a < threshold)
                            => r = Priced(m.low_amount_late_price)
                     /\ (~IsNone(t) /\ The(t) < m.working_hours_start /\ a < threshold)
                            => r = Priced(m.low_amount_early_price)
            /\ (in_delivery_method_id = "minsk" /\ a = 300 /\ t = Some(14)) => r = Priced(0)
            /\ (in_delivery_method_id = "minsk" /\ a = 100 /\ t = Some(14)) => r = Priced(12)
            /\ (in_delivery_method_id = "minsk" /\ a = 100 /\ t = Some(23)) => r = Priced(24)

\* Witness of C8: a small order at the closing hour of a method whose late
\* price differs from its early and in-hours prices.
C8_Witness ==
    /\ AnsweredActiveMethod
    /\ in_delivery_method_id = "suburb"
    /\ in_order_amount = 99
    /\ in_delivery_time = Some(20)
    /\ The(delivery_resp) = Priced(30)

\* C9: the delivery pricing rule is total: for every active method (pickup or
\* not), order amount and delivery time (early, in-hours, late or omitted) the
\* request is answered with a price that is 0 or one of the method's
\* configured price fields.
C9_DeliveryPriceTotal ==
    AnsweredActiveMethod =>
        LET m == DeliveryMethodRows[in_delivery_method_id]
            r == The(delivery_resp)
        IN  /\ r.status = 200
            /\ ~IsNone(r.delivery_price)
            /\ The(r.delivery_price) \in {0, m.base_price, m.low_amount_delivery_price,
                                          m.low_amount_early_price, m.low_amount_late_price}

(***************************************************************************)
(* POST login/ (Login.post)                                                *)
(***************************************************************************)

\* ---- bounds
MaxTokens == 3

\* SIMPLE_JWT REFRESH_TOKEN_LIFETIME, 60 minutes unless the environment says
\* otherwise; the clock of the model counts hours.
REFRESH_TOKEN_LIFETIME == 1

\* An Account row as far as authentication reads it.  The stored password is
\* the raw password it was made from, or "!" for the unusable password that
\* set_password(None) stores.
AccountRow(password, is_active, is_staff, is_superuser) ==
    [password |-> password, is_active |-> is_active,
     is_staff |-> is_staff, is_superuser |-> is_superuser]

\* Account rows at the start: two active administrators and an account that
\* has not been activated.
AccountRows ==
    ("florist1" :> AccountRow("right", TRUE, TRUE, FALSE)) @@
    ("admin"    :> AccountRow("right", TRUE, TRUE, TRUE)) @@
    ("newbie"   :> AccountRow("right", FALSE, FALSE, FALSE))

\* Request bodies; "" stands for a missing or empty field.
Logins == DOMAIN AccountRows \cup {"", "ghost"}
Passwords == {"", "right", "wrong"}

\* AbstractBaseUser.check_password: the raw password against the stored one;
\* an unusable stored password matches nothing.
check_password(raw_password, encoded) == encoded # "!" /\ encoded = raw_password

\* ModelBackend.user_can_authenticate
user_can_authenticate(user) == user.is_active

\* django.contrib.auth.authenticate(login=..., password=...) with the default
\* ModelBackend: <<login>> of the account found by its login whose password
\* matches and that is active, else <<>>.
authenticate(login, password) ==
    IF /\ login \in DOMAIN accounts
       /\ check_password(password, accounts[login].password)
       /\ user_can_authenticate(accounts[login])
    THEN Some(login)
    ELSE None

\* The status DRF's exception handler answers a rest_framework ValidationError
\* with: the class's status_code, 400; the `code` argument of the exception
\* only labels the error detail.
ValidationError_status(code) == 400

\* RefreshToken.for_user(user): the signed token, which is also the
\* OutstandingToken row written for it (jti, user, created_at, expires_at).
RefreshToken_for_user(user, jti, t) ==
    [jti |-> jti, user |-> user, created_at |-> t,
     expires_at |-> t + REFRESH_TOKEN_LIFETIME]

\* Login.post
LoginPost(login, password) ==
    /\ Cardinality(issued) < MaxTokens
    /\ login_req' = Some([login |-> login, password |-> password])
    /\ IF login = ""
       THEN /\ login_resp' = Some([status |-> ValidationError_status(400), refresh |-> None])
            /\ UNCHANGED <<outstanding, issued>>
       ELSE IF password = ""
       THEN /\ login_resp' = Some([status |-> ValidationError_status(400), refresh |-> None])
            /\ UNCHANGED <<outstanding, issued>>
       ELSE LET user == authenticate(login, password)
            IN  IF IsNone(user)
                THEN /\ login_resp' = Some([status |-> ValidationError_status(401),
                                            refresh |-> None])
                     /\ UNCHANGED <<outstanding, issued>>
                ELSE LET refresh == RefreshToken_for_user(The(user),
                                                          Cardinality(issued) + 1, now)
                     IN  /\ outstanding' = outstanding \cup {refresh}
                         /\ issued' = issued \cup {refresh}
                         /\ login_resp' = Some([status |-> 200,
                                                refresh |-> Some(refresh.jti)])
    /\ UNCHANGED <<accounts, account_call, blacklisted, logout_req, logout_resp, clear_runs>>
    /\ UNCHANGED <<orderVars, createVars, priceVars, deliveryVars, sideVars>>

\* Time passes between logins.
LoginTick ==
    /\ now < MaxTime
    /\ now' = now + 1
    /\ UNCHANGED <<orders, lastSave, createVars, priceVars, deliveryVars, authVars, sideVars>>

InitLogin ==
    /\ accounts = AccountRows
    /\ outstanding = {}
    /\ login_req = None
    /\ login_resp = None
    /\ account_call = None
    /\ issued = {}
    /\ blacklisted = {}
    /\ logout_req = None
    /\ logout_resp = None
    /\ clear_runs = <<>>
    /\ orders = <<>>
    /\ now = 1
    /\ lastSave = None
    /\ CreateIdle
    /\ PriceIdle
    /\ DeliveryIdle
    /\ SideIdle

NextLogin ==
    \/ \E login \in Logins, password \in Passwords : LoginPost(login, password)
    \/ LoginTick

SpecLogin == InitLogin /\ [][NextLogin]_vars

\* C10: POST login/ with a login and password that do not resolve to an active
\* account (wrong password, unknown login, inactive account) answers 401 and
\* creates no token record; only a login answered 200 issues a token.
C10_BadCredentials401 ==
    [][(login_req' # login_req \/ login_resp' # login_resp \/ outstanding' # outstanding) =>
          LET r == The(login_req')
          IN  /\ (r.login # "" /\ r.password # ""
                    /\ ~(r.login \in DOMAIN accounts
                         /\ accounts[r.login].is_active
                         /\ accounts[r.login].password = r.password))
                    => (The(login_resp').status = 401 /\ outstanding' = outstanding)
              /\ outstanding' # outstanding => The(login_resp').status = 200]_vars

(***************************************************************************)
(* AccountManager (topcvetok/managers.py) and the Account admin            *)
(***************************************************************************)

\* The keyword arguments a caller of create_user may add; <<>> for a keyword
\* that is not passed.
ExtraFields ==
    [is_active : {None, Some(TRUE), Some(FALSE)}, is_staff : {None, Some(TRUE)}]

\* The logins and passwords the manager is called with: an empty login, one
\* that is free and one that is taken; no password, or a password.
ManagerLogins == {"", "ghost", "newbie"}
ManagerPasswords == {None, Some("right")}

\* A model field's value on a new instance: the keyword if passed, else the
\* field's default.
field_value(kwarg, default) == IF IsNone(kwarg) THEN default ELSE The(kwarg)

\* AbstractBaseUser.set_password: the stored form of the raw password.
set_password(raw_password) == IF IsNone(raw_password) THEN "!" ELSE The(raw_password)

\* AccountManager.create_user that keeps the is_active it was passed.
create_user_KeepActive(password, extra_fields) ==
    AccountRow(set_password(password),
               field_value(extra_fields.is_active, TRUE),
               field_value(extra_fields.is_staff, FALSE),
               FALSE)

\* AccountManager.create_user: the row it saves.  AbstractUser's defaults are
\* is_active=True, is_staff=False, is_superuser=False.
create_user(password, extra_fields) ==
    AccountRow(set_password(password),
               FALSE,
               field_value(extra_fields.is_staff, FALSE),
               FALSE)

\* AccountManager.create_superuser: the row its second save() stores.
create_superuser(password) ==
    [create_user(password, [is_active |-> None, is_staff |-> None])
        EXCEPT !.password = set_password(password),
               !.is_superuser = TRUE,
               !.is_staff = TRUE,
               !.is_active = TRUE]

\* What a manager call raises before or while saving: ValidationError for an
\* empty login, IntegrityError for a login that is taken (login is unique).
manager_raises(login) ==
    IF login = "" THEN Some("ValidationError")
    ELSE IF login \in DOMAIN accounts THEN Some("IntegrityError")
    ELSE None

\* Account.objects.create_user(login, password, **extra_fields)
CreateUser(login, password, extra_fields) ==
    /\ account_call' = Some([op |-> "create_user", login |-> login, password |-> password,
                             is_active |-> extra_fields.is_active,
                             raised |-> manager_raises(login)])
    /\ IF IsNone(manager_raises(login))
       THEN accounts' = (login :> create_user(password, extra_fields)) @@ accounts
       ELSE UNCHANGED accounts
    /\ UNCHANGED <<outstanding, login_req, login_resp, issued, blacklisted,
                   logout_req, logout_resp, clear_runs>>
    /\ UNCHANGED <<orderVars, createVars, priceVars, deliveryVars, sideVars>>

\* Account.objects.create_superuser(login, password)
CreateSuperuser(login, password) ==
    /\ account_call' = Some([op |-> "create_superuser", login |-> login,
                             password |-> password, is_active |-> None,
                             raised |-> manager_raises(login)])
    /\ IF IsNone(manager_raises(login))
       THEN accounts' = (login :> create_superuser(password)) @@ accounts
       ELSE UNCHANGED accounts
    /\ UNCHANGED <<outstanding, login_req, login_resp, issued, blacklisted,
                   logout_req, logout_resp, clear_runs>>
    /\ UNCHANGED <<orderVars, createVars, priceVars, deliveryVars, sideVars>>

\* The change form of the Account admin saving is_active on an existing row:
\* the explicit activation (or deactivation) of an account.
AccountAdminChange(login, is_active) ==
    /\ login \in DOMAIN accounts
    /\ account_call' = Some([op |-> "admin_change", login |-> login, password |-> None,
                             is_active |-> Some(is_active), raised |-> None])
    /\ accounts' = [accounts EXCEPT ![login].is_active = is_active]
    /\ UNCHANGED <<outstanding, login_req, login_resp, issued, blacklisted,
                   logout_req, logout_resp, clear_runs>>
    /\ UNCHANGED <<orderVars, createVars, priceVars, deliveryVars, sideVars>>

CreateUserCall ==
    \E login \in ManagerLogins, password \in ManagerPasswords, extra_fields \in ExtraFields :
        CreateUser(login, password, extra_fields)

CreateSuperuserCall ==
    \E login \in ManagerLogins, password \in ManagerPasswords :
        CreateSuperuser(login, password)

AccountAdminChangeCall ==
    \E login \in {"ghost", "newbie"}, is_active \in BOOLEAN :
        AccountAdminChange(login, is_active)

AccountLogin ==
    \E login \in {"ghost", "newbie"}, password \in {"right", "wrong"} :
        LoginPost(login, password)

InitAccounts == InitLogin

NextAccounts ==
    \/ CreateUserCall
    \/ CreateSuperuserCall
    \/ AccountAdminChangeCall
    \/ AccountLogin

SpecAccounts == InitAccounts /\ [][NextAccounts]_vars

\* The latest manager call was op, and it saved a row.
Saved(call, op) == ~IsNone(call) /\ The(call).op = op /\ IsNone(The(call).raised)

\* C11: an account created by create_user is stored inactive whatever keywords
\* were passed; an account created by create_superuser is stored active, staff
\* and superuser with the password given; an inactive account becomes active
\* only by an explicit change of the row; and a token is issued only to an
\* account that is active at the time of the login.
C11_NewAccountsInactive ==
    [][/\ \A l \in DOMAIN accounts' \ DOMAIN accounts :
            /\ Saved(account_call', "create_user") \/ Saved(account_call', "create_superuser")
            /\ The(account_call').login = l
            /\ Saved(account_call', "create_user") => ~accounts'[l].is_active
            /\ Saved(account_call', "create_superuser") =>
                  /\ accounts'[l].is_active
                  /\ accounts'[l].is_staff
                  /\ accounts'[l].is_superuser
                  /\ \A pw \in Passwords :
                        The(account_call').password = Some(pw) =>
                            check_password(pw, accounts'[l].password)
       /\ \A l \in DOMAIN accounts :
            (~accounts[l].is_active /\ accounts'[l].is_active) =>
                /\ Saved(account_call', "admin_change")
                /\ The(account_call').login = l
       /\ \A t \in outstanding' \ outstanding : accounts[t.user].is_active]_vars

\* An account was created by create_user(..., is_active=True), is stored
\* inactive, and its login with the right password was refused without a token.
C11_Witness ==
    /\ Saved(account_call, "create_user")
    /\ The(account_call).login = "ghost"
    /\ The(account_call).is_active = Some(TRUE)
    /\ The(account_call).password = Some("right")
    /\ ~accounts["ghost"].is_active
    /\ login_req = Some([login |-> "ghost", password |-> "right"])
    /\ The(login_resp).status # 200
    /\ IsNone(The(login_resp).refresh)
    /\ \A t \in outstanding : t.user # "ghost"

(***************************************************************************)
(* POST logout/ (Logout.post) and the clear_expired_tokens task            *)
(***************************************************************************)

\* The celery workers that may run clear_expired_tokens at the same time.
ClearRuns == {"run1", "run2"}

\* The `refresh` of a logout body: absent, a string that is no signed refresh
\* token, or one of the tokens signed so far (named by its jti).
LogoutBodies ==
    {[kind |-> "missing", jti |-> 0], [kind |-> "malformed", jti |-> 0]} \cup
    {[kind |-> "token", jti |-> t.jti] : t \in issued}

\* The signed token with this jti.
signed(jti) == CHOOSE t \in issued : t.jti = jti

\* RefreshToken(refresh_token) that does not look at the blacklist.
RefreshToken_error_NoBlacklistCheck(body, t) ==
    IF body.kind = "missing" THEN Some("KeyError")
    ELSE IF body.kind = "malformed" THEN Some("TokenError")
    ELSE IF signed(body.jti).expires_at <= t THEN Some("TokenError")
    ELSE None

\* What request.data["refresh"] and RefreshToken(refresh_token) raise at time
\* t, <<>> if nothing: KeyError without the key; TokenError for a string that
\* does not decode, for a blacklisted jti and for a token whose exp is not
\* after the current time.
RefreshToken_error(body, t) ==
    IF body.kind = "missing" THEN Some("KeyError")
    ELSE IF body.kind = "malformed" THEN Some("TokenError")
    ELSE IF body.jti \in blacklisted THEN Some("TokenError")
    ELSE IF signed(body.jti).expires_at <= t THEN Some("TokenError")
    ELSE None

\* token.blacklist(): OutstandingToken.objects.get_or_create(jti=...) and then
\* BlacklistedToken.objects.get_or_create(token=...).
outstanding_get_or_create(token) ==
    IF \E row \in outstanding : row.jti = token.jti
    THEN outstanding
    ELSE outstanding \cup {token}

\* Logout.post; `authenticated` is whether JWTAuthentication found a valid
\* access token of an active account, which IsAuthenticated requires.
LogoutPost(authenticated, body) ==
    /\ logout_req' = Some([authenticated |-> authenticated, body |-> body])
    /\ IF ~authenticated
       THEN /\ logout_resp' = Some([status |-> 401])
            /\ UNCHANGED <<outstanding, blacklisted>>
       ELSE IF ~IsNone(RefreshToken_error(body, now))
       THEN /\ logout_resp' = Some([status |-> 400])
            /\ UNCHANGED <<outstanding, blacklisted>>
       ELSE /\ outstanding' = outstanding_get_or_create(signed(body.jti))
            /\ blacklisted' = blacklisted \cup {body.jti}
            /\ logout_resp' = Some([status |-> 205])
    /\ UNCHANGED <<accounts, login_req, login_resp, account_call, issued, clear_runs>>
    /\ UNCHANGED <<orderVars, createVars, priceVars, deliveryVars, sideVars>>

\* expires_at__lt=now with the comparison turned into <=.
expires_at__lt_OrEqual(row, t) == row.expires_at <= t

\* expires_at__lt=now with the comparison turned round.
expires_at__lt_Greater(row, t) == row.expires_at > t

\* The lookup expires_at__lt=now of both deletions.
expires_at__lt(row, t) == row.expires_at < t

\* A run starts (or starts again once done): now = make_aware(datetime.now())
\* and BlacklistedToken.objects.filter(token__expires_at__lt=now).delete()
ClearBlacklisted(run) ==
    /\ clear_runs[run].pc \in {"idle", "done"}
    /\ blacklisted' = blacklisted \
            {row.jti : row \in {o \in outstanding : expires_at__lt(o, now)}}
    /\ clear_runs' = [clear_runs EXCEPT ![run] = [pc |-> "blacklisted_deleted", now |-> now]]
    /\ UNCHANGED <<accounts, outstanding, login_req, login_resp, account_call, issued,
                   logout_req, logout_resp>>
    /\ UNCHANGED <<orderVars, createVars, priceVars, deliveryVars, sideVars>>

\* OutstandingToken.objects.filter(expires_at__lt=now).delete(); the rows of
\* BlacklistedToken that point to a deleted row go with it (on_delete=CASCADE).
ClearOutstanding(run) ==
    /\ clear_runs[run].pc = "blacklisted_deleted"
    /\ LET deleted == {o \in outstanding : expires_at__lt(o, clear_runs[run].now)}
       IN  /\ outstanding' = outstanding \ deleted
           /\ blacklisted' = blacklisted \ {row.jti : row \in deleted}
    /\ clear_runs' = [clear_runs EXCEPT ![run].pc = "done"]
    /\ UNCHANGED <<accounts, login_req, login_resp, account_call, issued,
                   logout_req, logout_resp>>
    /\ UNCHANGED <<orderVars, createVars, priceVars, deliveryVars, sideVars>>

TokenLogin ==
    \E login \in {"florist1"}, password \in {"right", "wrong"} : LoginPost(login, password)

TokenLogout ==
    \E authenticated \in BOOLEAN, body \in LogoutBodies : LogoutPost(authenticated, body)

InitTokens ==
    /\ accounts = AccountRows
    /\ outstanding = {}
    /\ login_req = None
    /\ login_resp = None
    /\ account_call = None
    /\ issued = {}
    /\ blacklisted = {}
    /\ logout_req = None
    /\ logout_resp = None
    /\ clear_runs = [run \in ClearRuns |-> [pc |-> "idle", now |-> 0]]
    /\ orders = <<>>
    /\ now = 1
    /\ lastSave = None
    /\ CreateIdle
    /\ PriceIdle
    /\ DeliveryIdle
    /\ SideIdle

NextTokens ==
    \/ TokenLogin
    \/ TokenLogout
    \/ \E run \in ClearRuns : ClearBlacklisted(run)
    \/ \E run \in ClearRuns : ClearOutstanding(run)
    \/ LoginTick

SpecTokens == InitTokens /\ [][NextTokens]_vars

\* A step of Logout.post.
LogoutStep ==
    logout_req' # logout_req \/ logout_resp' # logout_resp \/ ~(blacklisted' \subseteq blacklisted)

\* The body of the logout carries a signed refresh token that is neither
\* expired nor blacklisted.
ValidRefresh(body) ==
    /\ body.kind = "token"
    /\ body.jti \notin blacklisted
    /\ \E t \in issued : t.jti = body.jti /\ t.expires_at > now

\* C12 as stated: every POST logout/ with a valid, not yet blacklisted refresh
\* token blacklists exactly that token and answers 205, leaving every
\* outstanding-token record unchanged; with any other body it answers 400 and
\* changes no token state.
C12_LogoutFrame ==
    [][LogoutStep =>
          LET body == The(logout_req').body
          IN  IF ValidRefresh(body)
              THEN /\ The(logout_resp').status = 205
                   /\ blacklisted' = blacklisted \cup {body.jti}
                   /\ outstanding' = outstanding
              ELSE /\ The(logout_resp').status = 400
                   /\ blacklisted' = blacklisted
                   /\ outstanding' = outstanding]_vars

\* C12, amended: the same for a caller who is authenticated; a caller who is
\* not is answered 401 and changes no token state, whatever the body.
C12_LogoutFrameAuthenticated ==
    [][LogoutStep =>
          LET r == The(logout_req')
          IN  IF ~r.authenticated
              THEN /\ The(logout_resp').status = 401
                   /\ blacklisted' = blacklisted
                   /\ outstanding' = outstanding
              ELSE IF ValidRefresh(r.body)
              THEN /\ The(logout_resp').status = 205
                   /\ blacklisted' = blacklisted \cup {r.body.jti}
                   /\ outstanding' = outstanding
              ELSE /\ The(logout_resp').status = 400
                   /\ blacklisted' = blacklisted
                   /\ outstanding' = outstanding]_vars

\* An authenticated logout blacklisted one of two outstanding tokens and was
\* answered 205; the other token is not blacklisted.
C12_Witness ==
    /\ ~IsNone(logout_req)
    /\ The(logout_req).authenticated
    /\ The(logout_req).body.kind = "token"
    /\ The(logout_resp).status = 205
    /\ The(logout_req).body.jti \in blacklisted
    /\ \E o \in outstanding : o.jti \notin blacklisted /\ o.expires_at > now

Rejected(t) == ~IsNone(RefreshToken_error([kind |-> "token", jti |-> t.jti], now))

\* C29: a refresh token that is blacklisted is rejected, and a token that is
\* rejected stays rejected after every step of login, logout, the clock and
\* the two statements of any clear_expired_tokens run: a blacklisted token
\* leaves the blacklist only when it has expired, and an expired token stays
\* expired.
C29_BlacklistedNeverAccepted ==
    [][/\ \A t \in issued : t.jti \in blacklisted => Rejected(t)
       /\ \A t \in issued : Rejected(t) => Rejected(t)'
       /\ \A jti \in blacklisted \ blacklisted' :
            \E t \in issued : t.jti = jti /\ t.expires_at <= now]_vars

\* The token of the latest logout, answered 205, has since expired and a
\* clear_expired_tokens run has taken it off the blacklist; it is rejected.
C29_Witness ==
    /\ ~IsNone(logout_req)
    /\ The(logout_resp).status = 205
    /\ The(logout_req).body.jti \notin blacklisted
    /\ \A o \in outstanding : o.jti # The(logout_req).body.jti
    /\ Rejected(signed(The(logout_req).body.jti))
    /\ \E run \in ClearRuns : clear_runs[run].pc = "done"

(***************************************************************************)
(* The ModelViewSets and their get_permissions (topcvetok/views.py)        *)
(***************************************************************************)

\* Orders, payments and the rest of the shop are idle.
ShopIdle ==
    /\ orders = <<>>
    /\ now = 1
    /\ lastSave = None
    /\ CreateIdle
    /\ PriceIdle
    /\ DeliveryIdle

\* The viewsets that switch to AllowAny for list and retrieve.
PublicViewSets ==
    {"AttributeViewSet", "CategoryViewSet", "ProductAttributeViewSet", "ProductViewSet",
     "ServiceViewSet", "PaymentMethodViewSet", "DeliveryMethodViewSet", "ReviewViewSet",
     "BannerViewSet", "VideoViewSet", "ContactViewSet"}

ViewSets == PublicViewSets \cup {"OrderViewSet"}

\* The actions a router maps the HTTP methods of a ModelViewSet to.
ViewSetActions == {"list", "retrieve", "create", "update", "partial_update", "destroy"}

\* Primary keys and row contents.
Pks == {"pk1", "pk2"}
OtherData(data) == IF data = "a" THEN "b" ELSE "a"

\* get_permissions that also opens create on the public viewsets.
get_permissions_OpenCreate(viewset, action) ==
    IF viewset = "OrderViewSet"
    THEN IF action = "create" THEN "AllowAny" ELSE "IsAuthenticated"
    ELSE IF action \in {"list", "retrieve", "create"} THEN "AllowAny" ELSE "IsAuthenticated"

\* <ViewSet>.get_permissions: the permission class of the view instance that
\* handles this request.  The instance is made for the request with the class
\* attribute permission_classes = (IsAuthenticated,), which get_permissions
\* replaces on the instance for the actions it names.
get_permissions(viewset, action) ==
    IF viewset = "OrderViewSet"
    THEN IF action = "create" THEN "AllowAny" ELSE "IsAuthenticated"
    ELSE IF action \in {"list", "retrieve"} THEN "AllowAny" ELSE "IsAuthenticated"

\* AllowAny.has_permission / IsAuthenticated.has_permission
has_permission(permission, authenticated) == permission = "AllowAny" \/ authenticated

\* A request to a viewset: check_permissions, then the action of the
\* ModelViewSet mixins.  A request that is denied is answered 401 (the
\* authenticator, JWTAuthentication, has an authenticate header).
ViewSetRequest(viewset, action, pk, authenticated) ==
    LET rows == content[viewset]
        allowed == has_permission(get_permissions(viewset, action), authenticated)
    IN  /\ action = "create" => pk \notin DOMAIN rows
        /\ perm_req' = Some([viewset |-> viewset, action |-> action, pk |-> pk,
                             authenticated |-> authenticated])
        /\ IF ~allowed
           THEN /\ perm_resp' = Some([status |-> 401])
                /\ UNCHANGED content
           ELSE IF action = "list"
           THEN /\ perm_resp' = Some([status |-> 200])
                /\ UNCHANGED content
           ELSE IF action = "create"
           THEN /\ perm_resp' = Some([status |-> 201])
                /\ content' = [content EXCEPT ![viewset] = (pk :> "a") @@ rows]
           ELSE IF pk \notin DOMAIN rows
           THEN /\ perm_resp' = Some([status |-> 404])
                /\ UNCHANGED content
           ELSE IF action = "retrieve"
           THEN /\ perm_resp' = Some([status |-> 200])
                /\ UNCHANGED content
           ELSE IF action = "destroy"
           THEN /\ perm_resp' = Some([status |-> 204])
                /\ content' = [content EXCEPT
                                  ![viewset] = [k \in DOMAIN rows \ {pk} |-> rows[k]]]
           ELSE /\ perm_resp' = Some([status |-> 200])
                /\ content' = [content EXCEPT ![viewset][pk] = OtherData(rows[pk])]
        /\ UNCHANGED <<orderVars, createVars, priceVars, deliveryVars, authVars, labVars>>
        /\ UNCHANGED <<reviewVars, scrapeVars, filterVars>>

AnonymousRequest ==
    \E viewset \in DOMAIN content, action \in ViewSetActions, pk \in Pks :
        ViewSetRequest(viewset, action, pk, FALSE)

AuthenticatedRequest ==
    \E viewset \in DOMAIN content, action \in ViewSetActions, pk \in Pks :
        ViewSetRequest(viewset, action, pk, TRUE)

\* A request reads and writes the table of its own viewset only, so a
\* behaviour follows the requests to one viewset, any of the twelve.
InitPermissions ==
    /\ \E viewset \in ViewSets : content = (viewset :> ("pk1" :> "a"))
    /\ perm_req = None
    /\ perm_resp = None
    /\ ShopIdle
    /\ LabIdle
    /\ AuthIdle
    /\ ReviewIdle
    /\ ScrapeIdle
    /\ FilterIdle

NextPermissions ==
    \/ AnonymousRequest
    \/ AuthenticatedRequest

SpecPermissions == InitPermissions /\ [][NextPermissions]_vars

\* C13: a request of an unauthenticated caller to a public viewset is served
\* only if its action is list or retrieve and is answered 401 otherwise, and it
\* changes no row of any viewset; on OrderViewSet the only action served to an
\* unauthenticated caller is create, every other one is answered 401 and
\* leaves the orders as they are.
C13_AnonymousReadOnly ==
    [][(perm_req' # perm_req \/ perm_resp' # perm_resp \/ content' # content) =>
          LET r == The(perm_req')
              status == The(perm_resp').status
          IN  ~r.authenticated =>
                /\ \A viewset \in PublicViewSets \cap DOMAIN content :
                        content'[viewset] = content[viewset]
                /\ r.viewset \in PublicViewSets =>
                      /\ status # 401 => r.action \in {"list", "retrieve"}
                      /\ r.action \in {"create", "update", "partial_update", "destroy"}
                            => status = 401
                /\ r.viewset = "OrderViewSet" =>
                      /\ status # 401 => r.action = "create"
                      /\ r.action # "create" =>
                            /\ status = 401
                            /\ content'["OrderViewSet"] = content["OrderViewSet"]]_vars

\* After an authenticated caller changed a product, an unauthenticated caller
\* asked to destroy it: the answer was 401 and the row is there, as it was.
C13_Witness ==
    /\ perm_req = Some([viewset |-> "ProductViewSet", action |-> "destroy", pk |-> "pk1",
                        authenticated |-> FALSE])
    /\ The(perm_resp).status = 401
    /\ "pk1" \in DOMAIN content["ProductViewSet"]
    /\ content["ProductViewSet"]["pk1"] = "b"

(***************************************************************************)
(* save_review_callback of download_company_review (topcvetok/tasks.py)    *)
(* and the Review table                                                    *)
(***************************************************************************)

\* The workers whose runs of download_company_review may overlap.
ReviewRuns == {"runA", "runB"}

\* What the parser hands to the callback: the dict of __get_data_item.  A
\* field that is None is <<>>; date is the timestamp, 0 in the placeholder of
\* a stale element.
ReviewData(name, date, text, stars, answer) ==
    [name |-> name, date |-> date, text |-> text, stars |-> stars, answer |-> answer,
     icon_href |-> None]

ValidReviewData ==
    {ReviewData(Some("Anna"), date, Some("good"), stars, answer) :
        date \in {1, 2}, stars \in {4, 5}, answer \in {None, Some("thanks")}}

StalePlaceholder == ReviewData(None, 0, None, 0, None)

ReviewDataSet ==
    ValidReviewData \cup {StalePlaceholder, ReviewData(Some("Anna"), 1, None, 5, None)}

\* not review_data.get('name') or not review_data.get('text') or not
\* review_data.get('date')
missing_required(review_data) ==
    IsNone(review_data.name) \/ IsNone(review_data.text) \/ review_data.date = 0

\* make_aware(datetime.fromtimestamp(review_data['date'])): the local time of
\* the timestamp with the current time zone attached.
aware_date(timestamp) == [timestamp |-> timestamp, tzinfo |-> "Europe/Minsk"]

\* The lookup of update_or_create: company, date, text.
lookup_of(review_data) ==
    [company |-> The(review_data.name), date |-> aware_date(review_data.date),
     text |-> The(review_data.text)]

KeyOf(row) == [company |-> row.company, date |-> row.date, text |-> row.text]

\* A Review row made from the lookup and the defaults.
ReviewRow(pk, review_data) ==
    [pk |-> pk, company |-> lookup_of(review_data).company,
     date |-> lookup_of(review_data).date, text |-> lookup_of(review_data).text,
     stars |-> review_data.stars, answer |-> review_data.answer,
     icon_url |-> review_data.icon_href]

\* The table without its unique constraint.
unique_together_violated_Never(rows, key) == FALSE

\* Review.Meta.unique_together = (('company', 'date', 'text'),): an INSERT of
\* a row with this key fails with IntegrityError.
unique_together_violated(rows, key) == \E row \in rows : KeyOf(row) = key

\* The table after the existing row of the key took the defaults (setattr and
\* obj.save()).
update_defaults(rows, review_data) ==
    {IF KeyOf(row) = lookup_of(review_data)
     THEN ReviewRow(row.pk, review_data)
     ELSE row : row \in rows}

\* The callback is entered: the required fields are checked and
\* update_or_create looks the row up; a row that is found takes the defaults.
CallbackEnter(run, review_data) ==
    /\ callbacks[run].pc = "idle"
    /\ IF missing_required(review_data)
       THEN /\ callbacks' = [callbacks EXCEPT ![run] =
                    [pc |-> "idle", review_data |-> Some(review_data), result |-> Some(FALSE)]]
            /\ UNCHANGED reviews
       ELSE IF \E row \in reviews : KeyOf(row) = lookup_of(review_data)
       THEN /\ reviews' = update_defaults(reviews, review_data)
            /\ callbacks' = [callbacks EXCEPT ![run] =
                    [pc |-> "idle", review_data |-> Some(review_data), result |-> Some(TRUE)]]
       ELSE /\ callbacks' = [callbacks EXCEPT ![run] =
                    [pc |-> "create", review_data |-> Some(review_data), result |-> None]]
            /\ UNCHANGED reviews
    /\ UNCHANGED <<orderVars, createVars, priceVars, deliveryVars, authVars, labVars>>
    /\ UNCHANGED <<permVars, scrapeVars, filterVars>>

\* update_or_create did not find the row and creates it; on IntegrityError it
\* gets the row that another run created meanwhile and gives it the defaults.
CallbackCreate(run) ==
    /\ callbacks[run].pc = "create"
    /\ LET review_data == The(callbacks[run].review_data)
       IN  IF unique_together_violated(reviews, lookup_of(review_data))
           THEN reviews' = update_defaults(reviews, review_data)
           ELSE reviews' = reviews \cup {ReviewRow(Cardinality(reviews) + 1, review_data)}
    /\ callbacks' = [callbacks EXCEPT ![run].pc = "idle", ![run].result = Some(TRUE)]
    /\ UNCHANGED <<orderVars, createVars, priceVars, deliveryVars, authVars, labVars>>
    /\ UNCHANGED <<permVars, scrapeVars, filterVars>>

InitReviews ==
    /\ reviews = {}
    /\ callbacks = [run \in ReviewRuns |->
                        [pc |-> "idle", review_data |-> None, result |-> None]]
    /\ ShopIdle
    /\ LabIdle
    /\ AuthIdle
    /\ PermIdle
    /\ ScrapeIdle
    /\ FilterIdle

NextReviews ==
    \/ \E run \in ReviewRuns, review_data \in ReviewDataSet : CallbackEnter(run, review_data)
    \/ \E run \in ReviewRuns : CallbackCreate(run)

SpecReviews == InitReviews /\ [][NextReviews]_vars

\* The callback of this run returned True in this step.
ReturnedTrue(run) ==
    /\ callbacks'[run] # callbacks[run]
    /\ callbacks'[run].pc = "idle"
    /\ callbacks'[run].result = Some(TRUE)

\* C15: whatever callbacks run, one after another or overlapping, the table has
\* at most one Review row per (company, date, text); a row keeps its primary
\* key and its triple; and when an invocation returns True the row of its
\* triple carries the stars, answer and icon_url of that invocation, under the
\* primary key the triple had before if it had one.
C15_ReviewDedup ==
    [][/\ \A a, b \in reviews' : KeyOf(a) = KeyOf(b) => a = b
       /\ \A a \in reviews : \E b \in reviews' : b.pk = a.pk /\ KeyOf(b) = KeyOf(a)
       /\ \A run \in ReviewRuns :
            ReturnedTrue(run) =>
                LET review_data == The(callbacks'[run].review_data)
                IN  \E row \in reviews' :
                        /\ KeyOf(row) = lookup_of(review_data)
                        /\ row.stars = review_data.stars
                        /\ row.answer = review_data.answer
                        /\ row.icon_url = review_data.icon_href
                        /\ \A old \in reviews :
                              KeyOf(old) = KeyOf(row) => old.pk = row.pk]_vars

\* Two invocations with the same triple and different stars and answer have
\* both returned True; the table has the one row, with the first primary key
\* and the values of the invocation of runB.
C15_Witness ==
    /\ callbacks["runA"] = [pc |-> "idle", result |-> Some(TRUE),
                            review_data |-> Some(ReviewData(Some("Anna"), 1, Some("good"),
                                                            4, None))]
    /\ callbacks["runB"] = [pc |-> "idle", result |-> Some(TRUE),
                            review_data |-> Some(ReviewData(Some("Anna"), 1, Some("good"),
                                                            5, Some("thanks")))]
    /\ reviews = {ReviewRow(1, ReviewData(Some("Anna"), 1, Some("good"), 5, Some("thanks")))}

(***************************************************************************)
(* One run of download_company_review: YandexParser.parse opens the page   *)
(* in a browser and Parser.get_reviews_incremental hands the reviews to    *)
(* save_review_callback                                                    *)
(***************************************************************************)

\* The most review elements a page of the model shows.
MaxReviews == 3

\* What the page does to the run: the browser cannot be started, the
\* navigation raises, a captcha is shown, neither heading nor captcha shows up
\* in the wait window, the heading lacks the exact class __isinstance_page
\* looks for, scrolling or the second wait raises, or the page is fine.
PageOutcomes ==
    {"chrome_error", "nav_error", "captcha", "heading_timeout", "not_found",
     "scroll_error", "ok"}

\* A review element of the page: what __get_data_item does with it (returns
\* its data, returns the placeholder of a stale element, raises), the data,
\* and whether the database accepts the save.
ReviewElement(parse, review_data, save) ==
    [parse |-> parse, review_data |-> review_data, save |-> save]

ReviewElements ==
    {ReviewElement("ok", ReviewData(Some("Anna"), 1, Some("good"), 5, None), "ok"),
     ReviewElement("ok", ReviewData(Some("Anna"), 2, Some("good"), 4, Some("thanks")), "ok"),
     ReviewElement("ok", ReviewData(Some("Anna"), 1, Some("good"), 5, None), "db_error"),
     ReviewElement("ok", ReviewData(Some("Anna"), 1, None, 5, None), "ok"),
     ReviewElement("stale", StalePlaceholder, "ok"),
     ReviewElement("raises", StalePlaceholder, "ok")}

ElementLists == UNION {[1..n -> ReviewElements] : n \in 0..MaxReviews}

Pages ==
    {[outcome |-> outcome, elements |-> <<>>] : outcome \in PageOutcomes \ {"ok"}}
        \cup {[outcome |-> "ok", elements |-> elements] : elements \in ElementLists}

\* The dicts parse returns: {} , {'error': ...} and {'processed_count': n,
\* 'success': True}; an absent key is <<>>.
EmptyDict == [error |-> None, processed_count |-> None, success |-> None]

ErrorDict(error) == [error |-> Some(error), processed_count |-> None, success |-> None]

SuccessDict(n) == [error |-> None, processed_count |-> Some(n), success |-> Some(TRUE)]

\* The end of download_company_review: 'error' in data gives the error
\* payload, otherwise data.get('processed_count', 0) with success True.
download_company_review_return(data) ==
    IF ~IsNone(data.error)
    THEN ErrorDict(The(data.error))
    ELSE SuccessDict(IF IsNone(data.processed_count) THEN 0 ELSE The(data.processed_count))

\* Review.objects.update_or_create when no other run is writing.
update_or_create(rows, review_data) ==
    IF \E row \in rows : KeyOf(row) = lookup_of(review_data)
    THEN update_defaults(rows, review_data)
    ELSE rows \cup {ReviewRow(Cardinality(rows) + 1, review_data)}

\* save_review_callback as one call: False for missing fields and for any
\* exception of the save, True after update_or_create.
callback_success(element) ==
    ~missing_required(element.review_data) /\ element.save = "ok"

\* A loop that stops at the first exception.
after_exception_Break(i, n) == n + 1

\* except Exception: continue -- the loop goes on with the next element.
after_exception(i, n) == i + 1

\* The task is started by the beat schedule.
TaskStart(p) ==
    /\ sc_pc = "idle"
    /\ page' = Some(p)
    /\ sc_pc' = "open"
    /\ UNCHANGED <<driver, sc_idx, processed_count, cb_log, task_result, reviews, callbacks>>
    /\ UNCHANGED <<orderVars, createVars, priceVars, deliveryVars, authVars, labVars>>
    /\ UNCHANGED <<permVars, filterVars>>

\* parse returns data and download_company_review returns.
TaskReturns(data) ==
    /\ task_result' = Some(download_company_review_return(data))
    /\ sc_pc' = "returned"

\* __open_page inside parse.  uc.Chrome may raise before there is a browser;
\* driver.get is outside the try of __open_page, and parse's finally sees
\* parser = None, so after a navigation error nothing in this code quits the
\* browser: it is left to the finalizer of the driver object, which may or may
\* not have run.  Captcha and the timeout of the wait quit the browser and
\* raise; parse catches every exception and returns {}.
OpenPage ==
    /\ sc_pc = "open"
    /\ LET outcome == The(page).outcome
       IN  CASE outcome = "chrome_error" ->
                    /\ UNCHANGED driver
                    /\ TaskReturns(EmptyDict)
             [] outcome = "nav_error" ->
                    /\ driver' \in {"started", "quit"}
                    /\ TaskReturns(EmptyDict)
             [] outcome \in {"captcha", "heading_timeout"} ->
                    /\ driver' = "quit"
                    /\ TaskReturns(EmptyDict)
             [] OTHER ->
                    /\ driver' = "started"
                    /\ sc_pc' = "opened"
                    /\ UNCHANGED task_result
    /\ UNCHANGED <<page, sc_idx, processed_count, cb_log, reviews, callbacks>>
    /\ UNCHANGED <<orderVars, createVars, priceVars, deliveryVars, authVars, labVars>>
    /\ UNCHANGED <<permVars, filterVars>>

\* parse_reviews_incremental up to the loop: 'page not found' when the exact
\* heading is missing; no element (the wait times out), one element, or an
\* exception of the scroll give processed_count 0; parse's finally quits the
\* browser.
ParseReviewsIncremental ==
    /\ sc_pc = "opened"
    /\ LET p == The(page)
       IN  IF p.outcome = "not_found"
           THEN /\ driver' = "quit"
                /\ TaskReturns(ErrorDict("page not found"))
                /\ UNCHANGED sc_idx
           ELSE IF p.outcome = "scroll_error" \/ ~(Len(p.elements) > 1)
           THEN /\ driver' = "quit"
                /\ TaskReturns(SuccessDict(processed_count))
                /\ UNCHANGED sc_idx
           ELSE /\ sc_pc' = "parse"
                /\ sc_idx' = 1
                /\ UNCHANGED <<driver, task_result>>
    /\ UNCHANGED <<page, processed_count, cb_log, reviews, callbacks>>
    /\ UNCHANGED <<orderVars, createVars, priceVars, deliveryVars, authVars, labVars>>
    /\ UNCHANGED <<permVars, filterVars>>

\* The loop goes to element next, or is over.
LoopGoesTo(next) ==
    IF next > Len(The(page).elements)
    THEN sc_pc' = "loop_done" /\ UNCHANGED sc_idx
    ELSE sc_pc' = "parse" /\ sc_idx' = next

\* __get_data_item of the current element: an exception is caught by the loop.
ParseItem ==
    /\ sc_pc = "parse"
    /\ IF The(page).elements[sc_idx].parse = "raises"
       THEN LoopGoesTo(after_exception(sc_idx, Len(The(page).elements)))
       ELSE sc_pc' = "callback" /\ UNCHANGED sc_idx
    /\ UNCHANGED <<page, driver, processed_count, cb_log, task_result, reviews, callbacks>>
    /\ UNCHANGED <<orderVars, createVars, priceVars, deliveryVars, authVars, labVars>>
    /\ UNCHANGED <<permVars, filterVars>>

\* callback(review_data) of the current element and the count.
CallCallback ==
    /\ sc_pc = "callback"
    /\ LET element == The(page).elements[sc_idx]
           success == callback_success(element)
       IN  /\ reviews' = IF success THEN update_or_create(reviews, element.review_data)
                         ELSE reviews
           /\ cb_log' = Append(cb_log, [index |-> sc_idx, success |-> success])
           /\ processed_count' = IF success THEN processed_count + 1 ELSE processed_count
    /\ LoopGoesTo(sc_idx + 1)
    /\ UNCHANGED <<page, driver, task_result, callbacks>>
    /\ UNCHANGED <<orderVars, createVars, priceVars, deliveryVars, authVars, labVars>>
    /\ UNCHANGED <<permVars, filterVars>>

\* The loop is over: parse_reviews_incremental returns the count, parse's
\* finally quits the browser.
ParseReturns ==
    /\ sc_pc = "loop_done"
    /\ driver' = "quit"
    /\ TaskReturns(SuccessDict(processed_count))
    /\ UNCHANGED <<page, sc_idx, processed_count, cb_log, reviews, callbacks>>
    /\ UNCHANGED <<orderVars, createVars, priceVars, deliveryVars, authVars, labVars>>
    /\ UNCHANGED <<permVars, filterVars>>

\* The worker process is killed in the middle of the run.
WorkerCrash ==
    /\ sc_pc \in {"open", "opened", "parse", "callback", "loop_done"}
    /\ sc_pc' = "crashed"
    /\ UNCHANGED <<page, driver, sc_idx, processed_count, cb_log, task_result, reviews,
                   callbacks>>
    /\ UNCHANGED <<orderVars, createVars, priceVars, deliveryVars, authVars, labVars>>
    /\ UNCHANGED <<permVars, filterVars>>

InitScrape ==
    /\ ScrapeIdle
    /\ reviews \in {{}, {ReviewRow(1, ReviewData(Some("Anna"), 1, Some("good"), 4, None))}}
    /\ callbacks = <<>>
    /\ ShopIdle
    /\ LabIdle
    /\ AuthIdle
    /\ PermIdle
    /\ FilterIdle

NextScrape ==
    \/ \E p \in Pages : TaskStart(p)
    \/ OpenPage
    \/ ParseReviewsIncremental
    \/ ParseItem
    \/ CallCallback
    \/ ParseReturns
    \/ WorkerCrash

SpecScrape == InitScrape /\ [][NextScrape]_vars

\* The number of logged callback invocations that returned success.
Successes(log) == Cardinality({i \in 1..Len(log) : log[i].success})

\* C16: the callback is invoked for one element at a time in page order, and
\* when the loop turns to an element all earlier invocations are over and the
\* reviews they saved are in the table; no step, a failure or a crash of the
\* run included, removes a saved review; when the run returns from a page
\* whose list was processed, every element whose parsing did not raise had its
\* invocation and every element that could be saved is in the table, whatever
\* happened to the elements before it; processed_count is the number of
\* invocations that returned success.
C16_IncrementalPersistence ==
    [][/\ \A a \in reviews : \E b \in reviews' : b.pk = a.pk /\ KeyOf(b) = KeyOf(a)
       /\ processed_count' = Successes(cb_log')
       /\ \A i, j \in 1..Len(cb_log') : i < j => cb_log'[i].index < cb_log'[j].index
       /\ sc_pc' \in {"parse", "callback"} =>
            \A i \in 1..Len(cb_log') : cb_log'[i].index < sc_idx'
       /\ \A i \in 1..Len(cb_log') :
            cb_log'[i].success =>
                \E row \in reviews' :
                    KeyOf(row) = lookup_of(The(page').elements[cb_log'[i].index].review_data)
       /\ (sc_pc' = "returned" /\ sc_idx' > 0) =>
            /\ The(task_result').processed_count = Some(processed_count')
            /\ \A k \in 1..Len(The(page').elements) :
                 LET element == The(page').elements[k]
                 IN  /\ element.parse # "raises" =>
                            \E i \in 1..Len(cb_log') : cb_log'[i].index = k
                     /\ (element.parse = "ok" /\ callback_success(element)) =>
                            \E i \in 1..Len(cb_log') :
                                /\ cb_log'[i].index = k
                                /\ cb_log'[i].success
                                /\ \E row \in reviews' :
                                      KeyOf(row) = lookup_of(element.review_data)]_vars

\* A run returned from a page of three reviews of which the second raised
\* while it was parsed: the first and the third are saved and counted.
C16_Witness ==
    /\ sc_pc = "returned"
    /\ Len(The(page).elements) = 3
    /\ The(page).elements[2].parse = "raises"
    /\ cb_log = <<[index |-> 1, success |-> TRUE], [index |-> 3, success |-> TRUE]>>
    /\ processed_count = 2
    /\ Cardinality(reviews) = 2
    /\ task_result = Some(SuccessDict(2))

\* C17: when parse has returned after starting a browser, the browser has been
\* quit.
C17_BrowserQuit ==
    (sc_pc = "returned" /\ driver # "none") => driver = "quit"

\* C18: when the run has returned, the result is the error payload if the
\* scraper failed (captcha, no heading within the wait window, an exception of
\* the scraper), and it is {processed_count, success: true} only if the page
\* was opened and scraped.
C18_ErrorPayload ==
    sc_pc = "returned" =>
        /\ The(page).outcome \in {"chrome_error", "nav_error", "captcha", "heading_timeout"}
                => ~IsNone(The(task_result).error)
        /\ The(task_result).success = Some(TRUE)
                => The(page).outcome \in {"ok", "scroll_error"}

(***************************************************************************)
(* ProductFilter (topcvetok/filters.py): price_range, price_min and        *)
(* price_max over the products and their variants                          *)
(***************************************************************************)

\* The longest price_range value of the model, in characters.
MaxLen == 5

\* The characters of a price_range value; a value is a sequence of them.
Alphabet == {"1", "5", "-", "+", "n", "a", " "}

RawValues == UNION {[1..n -> Alphabet] : n \in 0..MaxLen}

DigitChars == {"1", "5"}

digit_value(c) == IF c = "1" THEN 1 ELSE 5

\* str.strip(): leading and trailing white space removed.
RECURSIVE lstrip(_)
lstrip(s) == IF s # <<>> /\ Head(s) = " " THEN lstrip(Tail(s)) ELSE s

RECURSIVE rstrip(_)
rstrip(s) ==
    IF s # <<>> /\ s[Len(s)] = " " THEN rstrip(SubSeq(s, 1, Len(s) - 1)) ELSE s

strip(s) == rstrip(lstrip(s))

\* c in s
contains(s, c) == \E i \in 1..Len(s) : s[i] = c

\* s.split(c, 1) of a string that contains c: the parts before and after the
\* first c.
split_once(s, c) ==
    LET k == CHOOSE i \in 1..Len(s) : s[i] = c /\ \A j \in 1..(i - 1) : s[j] # c
    IN  <<SubSeq(s, 1, k - 1), SubSeq(s, k + 1, Len(s))>>

endswith(s, c) == s # <<>> /\ s[Len(s)] = c

AllDigits(s) == s # <<>> /\ \A i \in 1..Len(s) : s[i] \in DigitChars

\* The number a string of digits denotes.
RECURSIVE decimal_value(_)
decimal_value(s) ==
    IF s = <<>> THEN 0
    ELSE 10 * decimal_value(SubSeq(s, 1, Len(s) - 1)) + digit_value(s[Len(s)])

\* float(s): white space around the text is ignored, one sign is allowed,
\* then digits or the word nan; anything else is a ValueError.
float(s) ==
    LET t == strip(s)
        has_sign == t # <<>> /\ t[1] \in {"+", "-"}
        body == IF has_sign THEN Tail(t) ELSE t
    IN  IF AllDigits(body)
        THEN [kind |-> "number",
              value |-> IF has_sign /\ t[1] = "-" THEN 0 - decimal_value(body)
                        ELSE decimal_value(body)]
        ELSE IF body = <<"n", "a", "n">>
        THEN [kind |-> "nan", value |-> 0]
        ELSE [kind |-> "ValueError", value |-> 0]

\* The product rows: the own price and the prices of the product's variants
\* (the rows of the variants relation that filters.py queries).
ProductRow(id, price, variants) == [id |-> id, price |-> price, variants |-> variants]

Catalog ==
    {ProductRow("pA", 5, {}),
     ProductRow("pB", 11, {51}),
     ProductRow("pC", 155, {1}),
     ProductRow("pD", 1, {15}),
     ProductRow("pE", 55, {5, 151})}

\* The raw values of the parent_matches_only parameter.
ParentMatchesOnlyValues == {None, Some("true"), Some("false")}

\* ProductFilter._is_parent_matches_only reads the raw parameter.
is_parent_matches_only(data) ==
    data.parent_matches_only \in {Some("true"), Some("True"), Some("1"), Some("yes"),
                                  Some("on")}

\* The values of price_min and price_max after NumberFilter's field.
BoundValues == {None, Some(5), Some(15), Some(55)}

Response200(ids) == [status |-> 200, ids |-> ids]

\* An exception that no handler catches.
Response500 == [status |-> 500, ids |-> {}]

\* queryset.filter(own condition) when parent_matches_only is set, otherwise
\* queryset.filter(Q(own condition) | Q(the same condition on one variant
\* row)).distinct(); cond is a set of prices.
filter_own_or_variant(queryset, parent_only, cond) ==
    {product \in queryset :
        \/ product.price \in cond
        \/ ~parent_only /\ \E price \in product.variants : price \in cond}

AllPrices == UNION {{product.price} \cup product.variants : product \in Catalog}

\* filter_by_price_range.  The floats become the values of lookups on a
\* DecimalField when the filter is built; the field refuses NaN with a
\* ValidationError, which is not among the exceptions the method catches.
filter_by_price_range(queryset, value, parent_only) ==
    IF contains(value, "-")
    THEN LET parts == split_once(value, "-")
             min_price == float(parts[1])
             max_price == float(parts[2])
         IN  IF min_price.kind = "ValueError" \/ max_price.kind = "ValueError"
             THEN Response200({})
             ELSE IF min_price.kind = "nan" \/ max_price.kind = "nan"
             THEN Response500
             ELSE Response200(filter_own_or_variant(queryset, parent_only,
                      {price \in AllPrices :
                          price >= min_price.value /\ price <= max_price.value}))
    ELSE IF endswith(value, "+")
    THEN LET min_price == float(SubSeq(value, 1, Len(value) - 1))
         IN  IF min_price.kind = "ValueError" THEN Response200({})
             ELSE IF min_price.kind = "nan" THEN Response500
             ELSE Response200(filter_own_or_variant(queryset, parent_only,
                      {price \in AllPrices : price >= min_price.value}))
    ELSE LET exact_price == float(value)
         IN  IF exact_price.kind = "ValueError" THEN Response200({})
             ELSE IF exact_price.kind = "nan" THEN Response500
             ELSE Response200(filter_own_or_variant(queryset, parent_only,
                      {price \in AllPrices : price = exact_price.value}))

\* filter_price_min: no value, no filter.
filter_price_min(queryset, value, parent_only) ==
    IF IsNone(value) THEN queryset
    ELSE filter_own_or_variant(queryset, parent_only,
             {price \in AllPrices : price >= The(value)})

\* filter_price_max: a filter call of its own.
filter_price_max(queryset, value, parent_only) ==
    IF IsNone(value) THEN queryset
    ELSE filter_own_or_variant(queryset, parent_only,
             {price \in AllPrices : price <= The(value)})

\* The requests of the model: price_range alone, or price_min and price_max.
FilterRequests ==
    {[price_range |-> Some(value), price_min |-> None, price_max |-> None,
      parent_matches_only |-> flag] :
        value \in RawValues, flag \in ParentMatchesOnlyValues}
    \cup
    {[price_range |-> None, price_min |-> lo, price_max |-> hi,
      parent_matches_only |-> flag] :
        lo \in BoundValues, hi \in BoundValues, flag \in ParentMatchesOnlyValues}

\* The filter set applied to the catalogue: the filters run one after the
\* other on the queryset; CharFilter's field strips the value and an empty
\* value means no filter.
ProductFilter_qs(data) ==
    LET parent_only == is_parent_matches_only(data)
        by_min == filter_price_min(Catalog, data.price_min, parent_only)
        by_max == filter_price_max(by_min, data.price_max, parent_only)
        value == IF IsNone(data.price_range) THEN <<>> ELSE strip(The(data.price_range))
    IN  IF value = <<>> THEN Response200(by_max)
        ELSE filter_by_price_range(by_max, value, parent_only)

\* GET products/ with the parameters of the request.
ProductList ==
    /\ ~IsNone(f_params)
    /\ IsNone(f_result)
    /\ f_result' = Some(ProductFilter_qs(The(f_params)))
    /\ UNCHANGED f_params
    /\ UNCHANGED <<orderVars, createVars, priceVars, deliveryVars, authVars, labVars>>
    /\ UNCHANGED <<permVars, reviewVars, scrapeVars>>

InitFilter ==
    /\ f_params \in {Some(data) : data \in FilterRequests}
    /\ f_result = None
    /\ ShopIdle
    /\ LabIdle
    /\ AuthIdle
    /\ PermIdle
    /\ ReviewIdle
    /\ ScrapeIdle

NextFilter == ProductList

SpecFilter == InitFilter /\ [][NextFilter]_vars

\* A number as the forms of price_range write it: digits, optionally after a
\* plus sign, optionally with white space around.
IsNumber(s) ==
    LET t == strip(s)
    IN  AllDigits(t) \/ (t # <<>> /\ t[1] = "+" /\ AllDigits(Tail(t)))

NumberOf(s) ==
    LET t == strip(s) IN decimal_value(IF t[1] = "+" THEN Tail(t) ELSE t)

\* The prices a price_range value asks for: 'A-B', 'A+', a bare number; no
\* price at all for a value of no such form.
PricesAsked(value) ==
    IF \E k \in 1..Len(value) :
            /\ value[k] = "-"
            /\ IsNumber(SubSeq(value, 1, k - 1))
            /\ IsNumber(SubSeq(value, k + 1, Len(value)))
    THEN LET k == CHOOSE k \in 1..Len(value) :
                    /\ value[k] = "-"
                    /\ IsNumber(SubSeq(value, 1, k - 1))
                    /\ IsNumber(SubSeq(value, k + 1, Len(value)))
         IN  {price \in AllPrices :
                /\ NumberOf(SubSeq(value, 1, k - 1)) <= price
                /\ price <= NumberOf(SubSeq(value, k + 1, Len(value)))}
    ELSE IF endswith(value, "+") /\ IsNumber(SubSeq(value, 1, Len(value) - 1))
    THEN {price \in AllPrices : price >= NumberOf(SubSeq(value, 1, Len(value) - 1))}
    ELSE IF IsNumber(value)
    THEN {price \in AllPrices : price = NumberOf(value)}
    ELSE {}

\* The products with a price among prices: the own price, or a variant's
\* unless parent_matches_only is set.
WithPriceIn(prices, data) ==
    {product \in Catalog :
        \/ product.price \in prices
        \/ /\ ~is_parent_matches_only(data)
           /\ \E price \in product.variants : price \in prices}

\* C19: the answer to a request with a price_range value is never an error; it
\* has exactly the products with a price the value asks for ('A-B', 'A+', a
\* bare number; own price, or a variant's price unless parent_matches_only is
\* set), and no product when the value has none of these forms.
C19_PriceRange ==
    (~IsNone(f_result) /\ ~IsNone(The(f_params).price_range)
            /\ strip(The(The(f_params).price_range)) # <<>>) =>
        /\ The(f_result).status = 200
        /\ The(f_result).ids =
                WithPriceIn(PricesAsked(strip(The(The(f_params).price_range))),
                            The(f_params))

\* C20: the answer to a request with price_min and price_max has a product
\* only if one price of it, the own price or (unless parent_matches_only is
\* set) the price of one variant, lies within the bounds that are given.
C20_PriceMinMax ==
    (~IsNone(f_result) /\ IsNone(The(f_params).price_range)) =>
        LET data == The(f_params)
            InBounds(price) ==
                /\ IsNone(data.price_min) \/ The(data.price_min) <= price
                /\ IsNone(data.price_max) \/ price <= The(data.price_max)
        IN  \A product \in The(f_result).ids :
                \/ InBounds(product.price)
                \/ /\ ~is_parent_matches_only(data)
                   /\ \E price \in product.variants : InBounds(price)

(***************************************************************************)
(* ProductFilter.filter_by_attributes (topcvetok/filters.py)               *)
(***************************************************************************)

\* The characters of an attributes value.
AttributeAlphabet == {"r", "R", "5", "x", "|", ",", " "}

AttributeRawValues == UNION {[1..n -> AttributeAlphabet] : n \in 0..MaxLen}

\* The Attribute rows, by their value; the last one is carried by no product.
AttributeValues == {<<"R">>, <<"5">>, <<"R", "5">>}

\* A product with the attribute values it carries itself and, per variant, the
\* attribute values the variant carries.
AttributedProduct(id, own, variants) == [id |-> id, own |-> own, variants |-> variants]

AttributedCatalog ==
    {AttributedProduct("pA", {<<"R">>}, {}),
     AttributedProduct("pB", {<<"5">>}, {{<<"R">>}}),
     AttributedProduct("pC", {}, {{<<"5">>}}),
     AttributedProduct("pD", {<<"R">>, <<"5">>}, {}),
     AttributedProduct("pE", {}, {})}

\* value.split(sep): the parts between the separators, empty parts included.
RECURSIVE split(_, _)
split(s, sep) ==
    IF contains(s, sep)
    THEN LET parts == split_once(s, sep) IN <<parts[1]>> \o split(parts[2], sep)
    ELSE <<s>>

lower(c) == IF c = "R" THEN "r" ELSE c

\* value__icontains=term: term occurs in value, case ignored.
icontains(value, term) ==
    \E start \in 1..(Len(value) + 1) :
        /\ start + Len(term) - 1 <= Len(value)
        /\ \A i \in 1..Len(term) : lower(value[start + i - 1]) = lower(term[i])

\* models.Attribute.objects.filter(Q(value__icontains=attr_value.strip()))
attr_values_of(term) == {value \in AttributeValues : icontains(value, strip(term))}

\* Q(product_attributes__attribute__in=attr_values), joined with the same on
\* the attributes of a variant unless parent_matches_only is set.
carries(product, attr_values, parent_only) ==
    \/ product.own \cap attr_values # {}
    \/ ~parent_only /\ \E variant \in product.variants : variant \cap attr_values # {}

\* The '|' branch: conditions starts as the empty Q() and takes a disjunct per
\* term whose attr_values exist; queryset.filter(Q()) filters nothing.
or_conditions(queryset, terms, parent_only) ==
    IF \A i \in 1..Len(terms) : attr_values_of(terms[i]) = {}
    THEN queryset
    ELSE {product \in queryset :
            \E i \in 1..Len(terms) :
                carries(product, attr_values_of(terms[i]), parent_only)}

\* The ',' branch: one filter call per term, none() at the first term without
\* attr_values.
and_conditions(queryset, terms, parent_only) ==
    IF \E i \in 1..Len(terms) : attr_values_of(terms[i]) = {}
    THEN {}
    ELSE {product \in queryset :
            \A i \in 1..Len(terms) :
                carries(product, attr_values_of(terms[i]), parent_only)}

filter_by_attributes(queryset, value, parent_only) ==
    IF contains(value, "|")
    THEN or_conditions(queryset, split(value, "|"), parent_only)
    ELSE and_conditions(queryset, split(value, ","), parent_only)

\* GET products/?attributes=...: CharFilter's field strips the value and an
\* empty value means no filter.
ProductListByAttributes ==
    /\ ~IsNone(f_params)
    /\ IsNone(f_result)
    /\ LET data == The(f_params)
           value == strip(data.attributes)
       IN  f_result' = Some(Response200(
                IF value = <<>> THEN AttributedCatalog
                ELSE filter_by_attributes(AttributedCatalog, value,
                                          is_parent_matches_only(data))))
    /\ UNCHANGED f_params
    /\ UNCHANGED <<orderVars, createVars, priceVars, deliveryVars, authVars, labVars>>
    /\ UNCHANGED <<permVars, reviewVars, scrapeVars>>

InitAttributes ==
    /\ f_params \in {Some([attributes |-> value, parent_matches_only |-> flag]) :
                        value \in AttributeRawValues, flag \in {None, Some("true")}}
    /\ f_result = None
    /\ ShopIdle
    /\ LabIdle
    /\ AuthIdle
    /\ PermIdle
    /\ ReviewIdle
    /\ ScrapeIdle

NextAttributes == ProductListByAttributes

SpecAttributes == InitAttributes /\ [][NextAttributes]_vars

\* C21: the answer to a request with an attributes value has a product only if
\* the product (or, unless parent_matches_only is set, one of its variants)
\* carries an attribute whose value contains a term: one of the terms of a
\* '|'-separated value, every term of a ','-separated value; the answer is
\* empty when no term of a '|'-separated value, or some term of a
\* ','-separated value, is contained in the value of any attribute.
C21_Attributes ==
    (~IsNone(f_result) /\ strip(The(f_params).attributes) # <<>>) =>
        LET data == The(f_params)
            value == strip(data.attributes)
            parent_only == is_parent_matches_only(data)
            Matches(product, term) ==
                \E attr \in AttributeValues :
                    /\ icontains(attr, strip(term))
                    /\ \/ attr \in product.own
                       \/ ~parent_only /\ \E variant \in product.variants : attr \in variant
        IN  IF contains(value, "|")
            THEN \A product \in The(f_result).ids :
                    \E i \in 1..Len(split(value, "|")) : Matches(product, split(value, "|")[i])
            ELSE \A product \in The(f_result).ids :
                    \A i \in 1..Len(split(value, ",")) : Matches(product, split(value, ",")[i])

(***************************************************************************)
(* manage.py init_data (topcvetok/management/commands/init_data.py)        *)
(***************************************************************************)

\* The variables and the idle state outside the worlds that follow.
outsideLab ==
    <<orderVars, createVars, priceVars, deliveryVars, authVars,
      permVars, reviewVars, scrapeVars, filterVars>>

OutsideLabIdle ==
    ShopIdle /\ AuthIdle /\ PermIdle /\ ReviewIdle /\ ScrapeIdle /\ FilterIdle

\* The most runs of the command in a behaviour.
MaxRuns == 3

\* The latest time of the model's clock.
MaxSeedClock == 6

\* The length of a day in ticks of the clock.
DayLen == 2

\* random.randint(1, 30) of create_reviews, cut down to 1..MaxDays.
MaxDays == 2

\* The tables the command writes.
SeedTables ==
    {"Category", "AttributeType", "Attribute", "Service", "DeliveryMethod",
     "PaymentMethod", "Product", "ProductAttribute", "Review"}

\* The lookups of the get_or_create calls: the slug of a category, of an
\* attribute type and of a product, the type and slug of an attribute, the
\* name of a service, of a delivery method and of a payment method.
SeedLookups ==
    [Category |-> {"rozy", "tyulpany"},
     AttributeType |-> {"color", "select-size"},
     Attribute |-> {<<"color", "krasnye">>, <<"select-size", "11">>},
     Service |-> {"ribbon", "styling"},
     DeliveryMethod |-> {"minsk", "belarus", "pickup"},
     PaymentMethod |-> {"cash", "card"},
     Product |-> {"buket-roz-klassika"}]

\* product.add_attribute(attr) for the attributes of a created product.
SeedProductAttributes ==
    [p \in SeedLookups.Product |-> {<<p, attr>> : attr \in SeedLookups.Attribute}]

\* company and text of the reviews of create_reviews.
SeedReviews == {<<"Anna", "great">>, <<"Mikhail", "good">>}

\* Model.objects.get_or_create(**lookup): a row is created only when no row
\* has the lookup.
get_or_create(rows, lookup) == IF lookup \in rows THEN rows ELSE rows \cup {lookup}

RECURSIVE get_or_create_all(_, _)
get_or_create_all(rows, lookups) ==
    IF lookups = {} THEN rows
    ELSE LET lookup == CHOOSE x \in lookups : TRUE
         IN  get_or_create_all(get_or_create(rows, lookup), lookups \ {lookup})

\* create_products: the links to attributes are added only for a product that
\* was created.
create_products(tables) ==
    LET created == SeedLookups.Product \ tables.Product
    IN  [tables EXCEPT
            !.Product = get_or_create_all(@, SeedLookups.Product),
            !.ProductAttribute = @ \cup UNION {SeedProductAttributes[p] : p \in created}]

\* 'date': datetime.now() - timedelta(days=random.randint(1, 30))
review_date(t, days) == t - days * DayLen

\* create_reviews: get_or_create(company, date, text) with the date computed
\* in this run; days holds the random number drawn for each review.
create_reviews(tables, t, days) ==
    [tables EXCEPT
        !.Review = get_or_create_all(@,
            {[company |-> r[1], date |-> review_date(t, days[r]), text |-> r[2]] :
                r \in SeedReviews})]

\* handle(): all the steps in one transaction.
handle(tables, t, days) ==
    LET seeded == [name \in SeedTables |->
                    IF name \in DOMAIN SeedLookups /\ name # "Product"
                    THEN get_or_create_all(tables[name], SeedLookups[name])
                    ELSE tables[name]]
    IN  create_reviews(create_products(seeded), t, days)

\* One run of the command; the clock has moved on when it ends.
InitDataRun ==
    /\ seed_runs < MaxRuns
    /\ seed_clock < MaxSeedClock
    /\ \E days \in [SeedReviews -> 1..MaxDays] :
            seed_tables' = handle(seed_tables, seed_clock, days)
    /\ seed_clock' = seed_clock + 1
    /\ seed_runs' = seed_runs + 1
    /\ UNCHANGED outsideLab
    /\ UNCHANGED <<scrollVars, categoryVars, cacheVars, variationVars, csvVars>>

\* Time passes between runs.
SeedTick ==
    /\ seed_clock < MaxSeedClock
    /\ seed_clock' = seed_clock + 1
    /\ UNCHANGED <<seed_tables, seed_runs>>
    /\ UNCHANGED outsideLab
    /\ UNCHANGED <<scrollVars, categoryVars, cacheVars, variationVars, csvVars>>

InitSeed ==
    /\ seed_tables = [name \in SeedTables |-> {}]
    /\ seed_clock = 0
    /\ seed_runs = 0
    /\ OutsideLabIdle
    /\ ScrollIdle
    /\ CategoryIdle
    /\ CacheIdle
    /\ VariationIdle
    /\ CsvIdle

NextSeed == InitDataRun \/ SeedTick

SpecSeed == InitSeed /\ [][NextSeed]_vars

\* C22: a run of init_data on a database that a run has already seeded
\* creates no row in any of the tables.
C22_SeedIdempotent ==
    [][(seed_runs >= 1 /\ seed_runs' = seed_runs + 1) =>
            \A name \in SeedTables : seed_tables'[name] = seed_tables[name]]_vars

(***************************************************************************)
(* Parser.__scroll_to_bottom (yandex_reviews_parser/parsers.py)            *)
(***************************************************************************)

\* The most review cards the page of the model ever shows.
MaxCards == 10

\* get_reviews_incremental found more than one card and calls
\* __scroll_to_bottom: last_count = 0.
ScrollStart ==
    /\ scroll_pc = "idle"
    /\ scroll_pc' = "loop"
    /\ last_count' = 0
    /\ UNCHANGED cards
    /\ UNCHANGED outsideLab
    /\ UNCHANGED <<seedVars, categoryVars, cacheVars, variationVars, csvVars>>

\* One pass of the while loop: no card within the wait is a TimeoutException
\* and ends the loop, so does a count equal to last_count; otherwise
\* last_count takes the count and the last card is scrolled into view, which
\* may raise StaleElementReferenceException and end the loop.
ScrollIteration ==
    /\ scroll_pc = "loop"
    /\ IF cards = 0 \/ cards = last_count
       THEN /\ scroll_pc' = "done"
            /\ UNCHANGED last_count
       ELSE /\ last_count' = cards
            /\ scroll_pc' \in {"loop", "done"}
    /\ UNCHANGED cards
    /\ UNCHANGED outsideLab
    /\ UNCHANGED <<seedVars, categoryVars, cacheVars, variationVars, csvVars>>

\* The page loads further cards or drops cards from the DOM.
FeedChanges ==
    /\ scroll_pc = "loop"
    /\ \E n \in 0..MaxCards : n # cards /\ cards' = n
    /\ UNCHANGED <<last_count, scroll_pc>>
    /\ UNCHANGED outsideLab
    /\ UNCHANGED <<seedVars, categoryVars, cacheVars, variationVars, csvVars>>

InitScroll ==
    /\ cards \in 2..MaxCards
    /\ last_count = 0
    /\ scroll_pc = "idle"
    /\ OutsideLabIdle
    /\ SeedIdle
    /\ CategoryIdle
    /\ CacheIdle
    /\ VariationIdle
    /\ CsvIdle

NextScroll == ScrollStart \/ ScrollIteration \/ FeedChanges

SpecScroll == InitScroll /\ [][NextScroll]_vars

\* C23: a pass of the loop that reads a count of cards not greater than the
\* count of the pass before ends the loop.
C23_ScrollExits ==
    [][(/\ scroll_pc = "loop"
        /\ <<last_count, scroll_pc>>' # <<last_count, scroll_pc>>
        /\ cards <= last_count) => scroll_pc' = "done"]_vars

\* C24: when the run has returned from a page that was opened and shows at
\* least one review card, every card whose parsing did not raise was passed to
\* the callback exactly once.
C24_EveryCardOnce ==
    (sc_pc = "returned" /\ The(page).outcome = "ok" /\ Len(The(page).elements) >= 1) =>
        \A k \in 1..Len(The(page).elements) :
            The(page).elements[k].parse # "raises" =>
                Cardinality({i \in 1..Len(cb_log) : cb_log[i].index = k}) = 1

(***************************************************************************)
(* Command.load_csv_data (management/commands/load_products_with_images.py)*)
(***************************************************************************)

\* The most data rows of a CSV file of the model.
MaxRows == 2

\* An image URL: what it starts with and the extension it contains.
ImageUrl(scheme, ext) == [scheme |-> scheme, ext |-> ext]

NoImage == ImageUrl("", "")

\* A data row: the cells ID, Тип, Имя, Изображения and Родительский; parent is
\* <<>> when the row is too short to have the cell.
CsvRow(id, type, name, image_url, parent) ==
    [id |-> id, type |-> type, name |-> name, image_url |-> image_url, parent |-> parent]

Roza == <<"R", "o", "z", "a">>

CsvRows ==
    {CsvRow("1", "simple", Roza, ImageUrl("http", ".jpg"), Some("")),
     CsvRow("2", "variable", Roza, ImageUrl("https", ".PNG"), Some("")),
     CsvRow("3", "variation", Roza, NoImage, Some("id:1")),
     CsvRow("3", "variation", Roza, NoImage, Some("")),
     CsvRow("3", "variation", Roza, NoImage, None),
     CsvRow("1", "simple", <<"R", "o", "z">>, ImageUrl("http", ".gif"), None),
     CsvRow("1", "simple", Roza, ImageUrl("http", ".txt"), Some("")),
     CsvRow("1", "simple", Roza, ImageUrl("ftp", ".jpg"), Some("")),
     CsvRow("1", "simple", Roza, NoImage, Some("")),
     CsvRow("2", "grouped", Roza, ImageUrl("http", ".jpg"), Some("")),
     CsvRow("2", "simple", <<" ", "a", "b", " ">>, ImageUrl("http", ".jpg"), Some("")),
     CsvRow("2", "simple", <<" ", " ", " ">>, ImageUrl("http", ".jpg"), Some("")),
     CsvRow("2", "simple", <<"C", "o", "p", "y", " ", "R">>, ImageUrl("http", ".jpg"),
            Some(""))}

\* A file: whether the header has the column Родительский, and the data rows.
CsvFiles ==
    {[has_parent_column |-> has, rows |-> rows] :
        has \in BOOLEAN, rows \in UNION {[1..n -> CsvRows] : n \in 0..MaxRows}}

\* str.lower() on the characters of the model.
to_lower(c) ==
    CASE c = "C" -> "c"
      [] c = "R" -> "r"
      [] OTHER -> c

\* The marker of a copied product ('копировать'), in lower case.
CopyWord == <<"c", "o", "p", "y">>

\* 'копировать' in product_name.lower()
has_copy_word(name) ==
    \E start \in 1..Len(name) :
        /\ start + Len(CopyWord) - 1 <= Len(name)
        /\ \A i \in 1..Len(CopyWord) : to_lower(name[start + i - 1]) = CopyWord[i]

\* not product_name or product_name.strip() == '' or len(product_name.strip()) < 3
bad_name(name) == name = <<>> \/ strip(name) = <<>> \/ Len(strip(name)) < 3

ext_lower(ext) == IF ext = ".PNG" THEN ".png" ELSE ext

\* image_url and image_url.startswith('http') and an allowed extension in
\* image_url.lower()
image_ok(image_url) ==
    /\ image_url # NoImage
    /\ image_url.scheme \in {"http", "https"}
    /\ ext_lower(image_url.ext) \in {".jpg", ".jpeg", ".png", ".webp", ".gif"}

\* The body of the loop for one row.  The assignment to csv_data[product_id]
\* stands inside the block of
\*   if product_type == 'variation' and parent_index and len(row) > parent_index
\* so only a row that enters that block is stored.
load_row(csv_data, has_parent_column, row) ==
    IF bad_name(row.name) \/ has_copy_word(row.name) THEN csv_data
    ELSE IF row.type \notin {"simple", "variable", "variation"} THEN csv_data
    ELSE IF ~(row.type = "variation" \/ image_ok(row.image_url)) THEN csv_data
    ELSE IF row.type = "variation" /\ has_parent_column /\ ~IsNone(row.parent)
    THEN LET parent_value == The(row.parent)
             entry == [name |-> row.name, type |-> row.type,
                       parent_id |-> IF parent_value = "id:1" THEN Some("1") ELSE None]
         IN  [id \in DOMAIN csv_data \cup {row.id} |->
                IF id = row.id THEN entry ELSE csv_data[id]]
    ELSE csv_data

RECURSIVE load_rows(_, _, _)
load_rows(csv_data, has_parent_column, rows) ==
    IF rows = <<>> THEN csv_data
    ELSE load_rows(load_row(csv_data, has_parent_column, Head(rows)),
                   has_parent_column, Tail(rows))

\* load_csv_data() on the file.
LoadCsvData ==
    /\ ~IsNone(csv_input)
    /\ IsNone(csv_result)
    /\ csv_result' = Some(load_rows(<<>>, The(csv_input).has_parent_column,
                                    The(csv_input).rows))
    /\ UNCHANGED csv_input
    /\ UNCHANGED outsideLab
    /\ UNCHANGED <<seedVars, scrollVars, categoryVars, cacheVars, variationVars>>

InitCsv ==
    /\ csv_input \in {Some(file) : file \in CsvFiles}
    /\ csv_result = None
    /\ OutsideLabIdle
    /\ SeedIdle
    /\ ScrollIdle
    /\ CategoryIdle
    /\ CacheIdle
    /\ VariationIdle

NextCsv == LoadCsvData

SpecCsv == InitCsv /\ [][NextCsv]_vars

\* A row the loader is to keep.
Qualifies(row) ==
    /\ strip(row.name) # <<>>
    /\ Len(strip(row.name)) >= 3
    /\ ~has_copy_word(row.name)
    /\ row.type \in {"simple", "variable", "variation"}
    /\ row.type = "variation" \/ image_ok(row.image_url)

\* C25: the data returned has an entry for an ID exactly when a row with that
\* ID qualifies (name not blank, at least 3 characters, no copy marker; type
\* simple, variable or variation; a variation or an http(s) image with an
\* allowed extension), and the entry is that of the last such row.
C25_CsvRowsKept ==
    ~IsNone(csv_result) =>
        LET rows == The(csv_input).rows
            csv_data == The(csv_result)
            kept == {i \in 1..Len(rows) : Qualifies(rows[i])}
        IN  /\ DOMAIN csv_data = {rows[i].id : i \in kept}
            /\ \A i \in kept :
                  (\A j \in kept : rows[j].id = rows[i].id => j <= i) =>
                        /\ csv_data[rows[i].id].name = rows[i].name
                        /\ csv_data[rows[i].id].type = rows[i].type

(***************************************************************************)
(* Category (topcvetok/models.py): the parent chain and its traversals,    *)
(* and the category API that writes parent                                 *)
(***************************************************************************)

\* The most categories of the model.
MaxCategories == 4

CategoryIds == 1..MaxCategories

CategoryNames == <<"Flowers", "Roses", "Red roses", "Tulips", "Peonies", "Lilies">>

CategorySlugs == <<"cveti", "rozi", "krasnye-rozi", "tyulpany", "piony", "lilii">>

CategoryRow(id, parent) ==
    [name |-> CategoryNames[id], slug |-> CategorySlugs[id], parent |-> parent]

\* The while loop of level and get_ancestors, from the category `parent` on:
\* the ancestors met, nearest first, or <<>> wrapped in no value when the loop
\* has not ended after fuel passes (a loop over n categories that passes more
\* than n times is in a cycle and never ends).
RECURSIVE ancestors_loop(_, _, _)
ancestors_loop(table, parent, fuel) ==
    IF IsNone(parent) THEN Some(<<>>)
    ELSE IF fuel = 0 THEN None
    ELSE LET rest == ancestors_loop(table, table[The(parent)].parent, fuel - 1)
         IN  IF IsNone(rest) THEN None ELSE Some(<<The(parent)>> \o The(rest))

\* get_ancestors(): the list, or no value when the loop never ends.
get_ancestors(table, c) ==
    ancestors_loop(table, table[c].parent, Cardinality(DOMAIN table))

\* level: the number of passes of its loop.
level(table, c) ==
    IF IsNone(get_ancestors(table, c)) THEN None
    ELSE Some(Len(The(get_ancestors(table, c))))

\* children.all()
children(table, c) == {d \in DOMAIN table : table[d].parent = Some(c)}

\* get_descendants() returns: the recursion into the children ends.
RECURSIVE get_descendants_returns(_, _, _)
get_descendants_returns(table, c, fuel) ==
    /\ fuel > 0
    /\ \A child \in children(table, c) : get_descendants_returns(table, child, fuel - 1)

reversed(seq) == [i \in 1..Len(seq) |-> seq[Len(seq) + 1 - i]]

\* path.insert(0, x) for each x of items in turn.
RECURSIVE insert_each_at_front(_, _)
insert_each_at_front(path, items) ==
    IF items = <<>> THEN path
    ELSE insert_each_at_front(<<Head(items)>> \o path, Tail(items))

\* sep.join(parts): the parts with the separator between them.
RECURSIVE join(_, _)
join(sep, parts) ==
    IF Len(parts) <= 1 THEN parts
    ELSE <<Head(parts), sep>> \o join(sep, Tail(parts))

\* path = [self.name]; for ancestor in reversed(self.get_ancestors()):
\* path.insert(0, ancestor.name)
path_parts(table, c, field) ==
    insert_each_at_front(<<table[c][field]>>,
        [i \in 1..Len(The(get_ancestors(table, c))) |->
            table[reversed(The(get_ancestors(table, c)))[i]][field]])

get_full_path(table, c) == join(" > ", path_parts(table, c, "name"))

get_full_slug(table, c) == join("/", path_parts(table, c, "slug"))

\* The parent chain of every category ends.
Acyclic(table) == \A c \in DOMAIN table : ~IsNone(get_ancestors(table, c))

\* The methods called on one category of a table without cycles.
CategoryMethods(c) ==
    /\ IsNone(cat_result)
    /\ cat_result' = Some([category |-> c,
                           level |-> The(level(categories, c)),
                           ancestors |-> The(get_ancestors(categories, c)),
                           full_path |-> get_full_path(categories, c),
                           full_slug |-> get_full_slug(categories, c)])
    /\ UNCHANGED categories
    /\ UNCHANGED outsideLab
    /\ UNCHANGED <<seedVars, scrollVars, cacheVars, variationVars, csvVars>>

InitCategoryPaths ==
    /\ categories \in {table \in [CategoryIds -> {CategoryRow(id, parent) :
                                        id \in CategoryIds,
                                        parent \in {None} \cup {Some(p) : p \in CategoryIds}}] :
                            /\ \A id \in CategoryIds : table[id].name = CategoryNames[id]
                            /\ Acyclic(table)}
    /\ cat_result = None
    /\ OutsideLabIdle
    /\ SeedIdle
    /\ ScrollIdle
    /\ CacheIdle
    /\ VariationIdle
    /\ CsvIdle

NextCategoryPaths == \E c \in DOMAIN categories : CategoryMethods(c)

SpecCategoryPaths == InitCategoryPaths /\ [][NextCategoryPaths]_vars

\* The chain from the root ancestor down to the category itself.
RECURSIVE RootToSelf(_, _)
RootToSelf(table, c) ==
    IF IsNone(table[c].parent) THEN <<c>>
    ELSE RootToSelf(table, The(table[c].parent)) \o <<c>>

\* C26: for a category of a table without cycles, get_full_path is the names
\* from the root ancestor down to the category joined by ' > ', get_full_slug
\* the slugs in the same order joined by '/', and level is the number of
\* ancestors get_ancestors returns.
C26_FullPathRootFirst ==
    ~IsNone(cat_result) =>
        LET r == The(cat_result)
            chain == RootToSelf(categories, r.category)
        IN  /\ r.full_path = join(" > ", [i \in 1..Len(chain) |-> categories[chain[i]].name])
            /\ r.full_slug = join("/", [i \in 1..Len(chain) |-> categories[chain[i]].slug])
            /\ r.level = Len(r.ancestors)


(***************************************************************************)
(* CategoryViewSet (topcvetok/views.py): create and update through the API *)
(***************************************************************************)

ParentChoices(table) == {None} \cup {Some(p) : p \in DOMAIN table}

\* POST /categories/: CategorySerializer has fields = "__all__" and no
\* validate method; the new row gets a new id.
CategoryCreate(parent) ==
    /\ Len(categories) < MaxCategories
    /\ categories' = Append(categories, CategoryRow(Len(categories) + 1, parent))
    /\ cat_result' = None
    /\ UNCHANGED outsideLab
    /\ UNCHANGED <<seedVars, scrollVars, cacheVars, variationVars, csvVars>>

\* PUT/PATCH /categories/<id>/: parent is written as sent.
CategoryUpdate(c, parent) ==
    /\ categories[c].parent # parent
    /\ categories' = [categories EXCEPT ![c].parent = parent]
    /\ cat_result' = None
    /\ UNCHANGED outsideLab
    /\ UNCHANGED <<seedVars, scrollVars, cacheVars, variationVars, csvVars>>

\* get_categories of a product in category c, and get_descendants of c: what
\* returns, and what never does. cat_result holds the outcome of the latest
\* request when that request was a traversal.
CategoryTraverse(c) ==
    /\ cat_result' = Some([category |-> c,
                           level |-> level(categories, c),
                           ancestors |-> get_ancestors(categories, c),
                           descendants_return |->
                               get_descendants_returns(categories, c, Len(categories))])
    /\ UNCHANGED categories
    /\ UNCHANGED outsideLab
    /\ UNCHANGED <<seedVars, scrollVars, cacheVars, variationVars, csvVars>>

InitCategories ==
    /\ categories = <<>>
    /\ cat_result = None
    /\ OutsideLabIdle
    /\ SeedIdle
    /\ ScrollIdle
    /\ CacheIdle
    /\ VariationIdle
    /\ CsvIdle

NextCategories ==
    \/ \E parent \in ParentChoices(categories) : CategoryCreate(parent)
    \/ \E c \in DOMAIN categories, parent \in ParentChoices(categories) :
            CategoryUpdate(c, parent)
    \/ \E c \in DOMAIN categories : CategoryTraverse(c)

SpecCategories == InitCategories /\ [][NextCategories]_vars

\* C28: in every state reached through category create and update, level,
\* get_ancestors (and with it get_full_path) and get_descendants return for
\* every category.
C28_TraversalTerminates ==
    /\ \A c \in DOMAIN categories :
            /\ ~IsNone(level(categories, c))
            /\ ~IsNone(get_ancestors(categories, c))
            /\ get_descendants_returns(categories, c, Len(categories))
    /\ ~IsNone(cat_result) =>
            /\ ~IsNone(The(cat_result).level)
            /\ The(cat_result).descendants_return


(***************************************************************************)
(* ProductSerializer.get_primary_category, _name and _slug                 *)
(* (topcvetok/serializers.py): the three cached fields                     *)
(***************************************************************************)

\* The 300 seconds of cache.set, in ticks of cache_clock.
CacheTtl == 2

\* The last tick of cache_clock.
MaxCacheClock == 4

CachedProducts == {"p1"}

CachedCategoryIds == {1, 2}

PrimaryFields == {"primary_category", "primary_category_name", "primary_category_slug"}

\* cache_key = f"product_{obj.id}_primary_category", ..._name, ..._slug
cache_key(product, field) == <<product, field>>

\* Product.get_primary_category(): self.categories.first(), the category of
\* the least pk, or no value.
get_primary_category(cats) ==
    IF cats = {} THEN None
    ELSE Some(CHOOSE c \in cats : \A d \in cats : c <= d)

\* primary.id, primary.name or primary.slug if primary else None
primary_value(cats, field) ==
    IF IsNone(get_primary_category(cats)) THEN None
    ELSE LET primary == CategoryRow(The(get_primary_category(cats)), None)
         IN  Some(CASE field = "primary_category" -> The(get_primary_category(cats))
                    [] field = "primary_category_name" -> primary.name
                    [] field = "primary_category_slug" -> primary.slug)

\* cache.get(key): the stored value while its time to live lasts, else None.
cache_get(store, key, t) ==
    IF key \in DOMAIN store /\ t < store[key].expires THEN store[key].value ELSE None

\* cache.set(key, value, 300)
cache_set(store, key, value, t) ==
    [k \in DOMAIN store \cup {key} |->
        IF k = key THEN [value |-> value, expires |-> t + CacheTtl] ELSE store[k]]

\* One of the three get_primary_category* methods for one product.
GetPrimaryField(product, field) ==
    LET key == cache_key(product, field)
        cached == cache_get(cache, key, cache_clock)
        fresh == primary_value(product_categories[product], field)
    IN  /\ IF IsNone(cached)
              THEN /\ cache' = cache_set(cache, key, fresh, cache_clock)
                   /\ ser_resp' = Some([product |-> product, field |-> field, value |-> fresh])
              ELSE /\ cache' = cache
                   /\ ser_resp' = Some([product |-> product, field |-> field, value |-> cached])
        /\ UNCHANGED <<product_categories, cache_clock>>
        /\ UNCHANGED outsideLab
        /\ UNCHANGED <<seedVars, scrollVars, categoryVars, variationVars, csvVars>>

\* product.categories.set(...) through the product API or the admin; nothing
\* in the repository deletes a cache key.
ProductCategoriesSet(product, cats) ==
    /\ product_categories[product] # cats
    /\ product_categories' = [product_categories EXCEPT ![product] = cats]
    /\ ser_resp' = None
    /\ UNCHANGED <<cache, cache_clock>>
    /\ UNCHANGED outsideLab
    /\ UNCHANGED <<seedVars, scrollVars, categoryVars, variationVars, csvVars>>

\* Time passes; the cache backend drops the keys whose time to live is over.
CacheTick ==
    /\ cache_clock < MaxCacheClock
    /\ cache_clock' = cache_clock + 1
    /\ cache' = [k \in {key \in DOMAIN cache : cache_clock + 1 < cache[key].expires} |->
                    cache[k]]
    /\ ser_resp' = None
    /\ UNCHANGED product_categories
    /\ UNCHANGED outsideLab
    /\ UNCHANGED <<seedVars, scrollVars, categoryVars, variationVars, csvVars>>

InitCache ==
    /\ product_categories \in [CachedProducts -> SUBSET CachedCategoryIds]
    /\ cache = <<>>
    /\ cache_clock = 0
    /\ ser_resp = None
    /\ OutsideLabIdle
    /\ SeedIdle
    /\ ScrollIdle
    /\ CategoryIdle
    /\ VariationIdle
    /\ CsvIdle

NextCache ==
    \/ \E product \in CachedProducts, field \in PrimaryFields : GetPrimaryField(product, field)
    \/ \E product \in CachedProducts, cats \in SUBSET CachedCategoryIds :
            ProductCategoriesSet(product, cats)
    \/ CacheTick

SpecCache == InitCache /\ [][NextCache]_vars

\* C27: the value a serialization returns for primary_category,
\* primary_category_name or primary_category_slug is the value a read of the
\* product's first category returns at that moment.
C27_CacheTransparent ==
    ~IsNone(ser_resp) =>
        The(ser_resp).value =
            primary_value(product_categories[The(ser_resp).product], The(ser_resp).field)


(***************************************************************************)
(* ProductSerializer.get_is_main_product, get_base_name and get_variations *)
(* (topcvetok/serializers.py)                                              *)
(***************************************************************************)

\* The most products of a catalog.
MaxCatalog == 2

\* The deepest chain of nested serializers the model follows.
MaxDepth == 4

\* The size indicators, written in Latin letters; each is one unit of a name
\* here (the first two of the seven of the code).
size_indicators == <<"40 cm", "50 cm">>

\* Product names as sequences of units: a word, a space, a dash or a size.
VariationNames ==
    { <<"Roza">>,
      <<"Roza", " ">>,
      <<"Roza", " ", " ">>,
      <<"Roza", " ", "-", " ", "40 cm">>,
      <<"Roza", " ", "-", " ", "50 cm">>,
      <<"Roza", " ", "40 cm">>,
      <<"Pion">> }

\* What get_variations reads of a Product: its name and whether one of its
\* product_attributes has an attribute with display_name 'variation'.
VariationProduct(name, has_variation_attr) ==
    [name |-> name, has_variation_attr |-> has_variation_attr]

VariationCatalogs ==
    UNION {[1..n -> {VariationProduct(name, attr) : name \in VariationNames, attr \in BOOLEAN}] :
                n \in 1..MaxCatalog}

\* name.startswith(prefix)
startswith(name, prefix) ==
    Len(prefix) <= Len(name) /\ SubSeq(name, 1, Len(prefix)) = prefix

\* name.replace(old, ''): every occurrence of old, left to right, removed.
RECURSIVE replace_with_empty(_, _)
replace_with_empty(name, old) ==
    IF name = <<>> THEN <<>>
    ELSE IF startswith(name, old)
         THEN replace_with_empty(SubSeq(name, Len(old) + 1, Len(name)), old)
         ELSE <<Head(name)>> \o replace_with_empty(Tail(name), old)

\* has_variation_attr or not has_size_in_name
get_is_main_product(obj) ==
    \/ obj.has_variation_attr
    \/ ~(\E i \in DOMAIN size_indicators : contains(obj.name, size_indicators[i]))

\* The loop of get_base_name from the i-th size indicator on.
RECURSIVE remove_sizes(_, _)
remove_sizes(name, i) ==
    IF i > Len(size_indicators) THEN name
    ELSE remove_sizes(
            replace_with_empty(
                replace_with_empty(name, <<" ", "-", " ", size_indicators[i]>>),
                <<" ", size_indicators[i]>>),
            i + 1)

get_base_name(obj) == strip(remove_sizes(obj.name, 1))

\* The ids get_variations(obj) hands to the nested ProductSerializer.
get_variations(catalog, id) ==
    IF ~get_is_main_product(catalog[id]) THEN {}
    ELSE {v \in DOMAIN catalog :
            /\ startswith(catalog[v].name, get_base_name(catalog[id]))
            /\ v # id
            /\ catalog[v].name # get_base_name(catalog[id])}

\* The frame of a ProductSerializer at work on one product: the product and
\* the variations it has not yet handed to a nested serializer.
Frame(catalog, id) == [product |-> id, todo |-> get_variations(catalog, id)]

\* GET of one product: the outermost serializer starts.
SerializeProduct(id) ==
    /\ ser_stack = <<>>
    /\ ser_stack' = <<Frame(var_catalog, id)>>
    /\ UNCHANGED var_catalog
    /\ UNCHANGED outsideLab
    /\ UNCHANGED <<seedVars, scrollVars, categoryVars, cacheVars, csvVars>>

\* The serializer on top hands its next variation to a nested serializer,
\* whose get_variations runs in turn.
SerializeVariation ==
    /\ ser_stack # <<>>
    /\ Len(ser_stack) < MaxDepth
    /\ ser_stack[Len(ser_stack)].todo # {}
    /\ LET top == ser_stack[Len(ser_stack)]
           v == CHOOSE x \in top.todo : \A y \in top.todo : x <= y
       IN  ser_stack' = Append([ser_stack EXCEPT ![Len(ser_stack)].todo = top.todo \ {v}],
                               Frame(var_catalog, v))
    /\ UNCHANGED var_catalog
    /\ UNCHANGED outsideLab
    /\ UNCHANGED <<seedVars, scrollVars, categoryVars, cacheVars, csvVars>>

\* The serializer on top has no variation left and returns its data.
SerializerReturns ==
    /\ ser_stack # <<>>
    /\ ser_stack[Len(ser_stack)].todo = {}
    /\ ser_stack' = SubSeq(ser_stack, 1, Len(ser_stack) - 1)
    /\ UNCHANGED var_catalog
    /\ UNCHANGED outsideLab
    /\ UNCHANGED <<seedVars, scrollVars, categoryVars, cacheVars, csvVars>>

InitVariations ==
    /\ var_catalog \in VariationCatalogs
    /\ ser_stack = <<>>
    /\ OutsideLabIdle
    /\ SeedIdle
    /\ ScrollIdle
    /\ CategoryIdle
    /\ CacheIdle
    /\ CsvIdle

NextVariations ==
    \/ \E id \in DOMAIN var_catalog : SerializeProduct(id)
    \/ SerializeVariation
    \/ SerializerReturns

SpecVariations == InitVariations /\ [][NextVariations]_vars

\* C30: no product is being serialized twice in one chain of nested
\* serializers, so the recursion of get_variations ends.
C30_NoRevisit ==
    \A i, j \in DOMAIN ser_stack :
        ser_stack[i].product = ser_stack[j].product => i = j

====
